---- MODULE Spec2Model ----
(***************************************************************************)
(* Model of the price-reconciliation script                                *)
(* src/naver_crawl_columbia_c6c7_title_min.py: the search-result filter    *)
(* and ranker, the confidence scorer, the disk cache, the HTTP retry loop  *)
(* and the main loop that builds the output rows.                          *)
(*                                                                         *)
(* Representation.  A Python str is a sequence of one-character strings,   *)
(* so that strip(), lower(), upper(), re.sub and the `in` substring test   *)
(* are computed as the code computes them.  Optional[T] is a sequence of   *)
(* length at most one: None is << >>, a value v is <<v>>.                  *)
(***************************************************************************)
EXTENDS Integers, Sequences, FiniteSets, TLC

\* ------------------------------------------------------------------------
\* Bounds of the model
\* ------------------------------------------------------------------------
\* longest item list drawn as input of the pure functions
MaxItems == 4
\* number of input rows one run of the main loop processes
MaxRows == 2
\* last hour the wall clock may reach
MaxClock == 14
\* most entries of the history directory
MaxFiles == 3
\* number of entries of BRANDS, from the first on, a run of the banner
\* collector goes through
MaxBrands == 3
\* longest list of banners handed to dedupe_brand_rows on its own
MaxBanners == 3
\* oldest post of the board, in days before today
MaxAge == 3

\* ------------------------------------------------------------------------
\* Python values
\* ------------------------------------------------------------------------
None == << >>
Some(v) == <<v>>

UpperLetters == <<"A","B","C","D","E","F","G","H","I","J","K","L","M",
                  "N","O","P","Q","R","S","T","U","V","W","X","Y","Z">>
LowerLetters == <<"a","b","c","d","e","f","g","h","i","j","k","l","m",
                  "n","o","p","q","r","s","t","u","v","w","x","y","z">>
Digits == {"0","1","2","3","4","5","6","7","8","9"}
Whitespace == {" ", "\t", "\n"}

IndexIn(c, letters) == CHOOSE i \in 1..Len(letters) : letters[i] = c
IsIn(c, letters) == \E i \in 1..Len(letters) : letters[i] = c

\* str.lower() / str.upper(), one character
LowerChar(c) == IF IsIn(c, UpperLetters) THEN LowerLetters[IndexIn(c, UpperLetters)] ELSE c
UpperChar(c) == IF IsIn(c, LowerLetters) THEN UpperLetters[IndexIn(c, LowerLetters)] ELSE c

\* str.lower()
Lower(s) == [i \in 1..Len(s) |-> LowerChar(s[i])]
\* str.upper()
Upper(s) == [i \in 1..Len(s) |-> UpperChar(s[i])]

RECURSIVE LStrip(_)
LStrip(s) == IF s # << >> /\ Head(s) \in Whitespace THEN LStrip(Tail(s)) ELSE s
RECURSIVE RStrip(_)
RStrip(s) ==
    IF s # << >> /\ s[Len(s)] \in Whitespace THEN RStrip(SubSeq(s, 1, Len(s) - 1)) ELSE s
\* str.strip()
Strip(s) == RStrip(LStrip(s))

\* the Python test `sub in s` on strings
Contains(sub, s) ==
    \E i \in 0..(Len(s) - Len(sub)) : SubSeq(s, i + 1, i + Len(sub)) = sub

\* ------------------------------------------------------------------------
\* strip_html_tags: re.sub(r"<[^>]+>", "", s)
\* ------------------------------------------------------------------------
\* index of the first ">" at or after position i, 0 when there is none
FirstGt(s, i) ==
    IF \E j \in i..Len(s) : s[j] = ">"
    THEN CHOOSE j \in i..Len(s) : s[j] = ">" /\ \A k \in i..(j - 1) : s[k] # ">"
    ELSE 0

RECURSIVE StripTagsFrom(_, _)
StripTagsFrom(s, i) ==
    IF i > Len(s) THEN << >>
    ELSE IF s[i] = "<" /\ FirstGt(s, i + 1) > i + 1
         THEN StripTagsFrom(s, FirstGt(s, i + 1) + 1)
         ELSE <<s[i]>> \o StripTagsFrom(s, i + 1)

strip_html_tags(s) == IF s = << >> THEN << >> ELSE StripTagsFrom(s, 1)

\* ------------------------------------------------------------------------
\* lprice as the API delivers it.  kind "digits": a string of decimal
\* digits such as "45000" (val is its value); kind "signed": a string that
\* int() parses but str.isdigit() rejects, such as "-5" or " 12 "; kind
\* "junk": a value int() rejects ("", "abc", or None when the key is missing).
\* ------------------------------------------------------------------------
LDigits(n) == [kind |-> "digits", val |-> n]
LSigned(n) == [kind |-> "signed", val |-> n]
LJunk == [kind |-> "junk", val |-> 0]

\* int(x) succeeds
IntParses(x) == x.kind \in {"digits", "signed"}

\* stands for 10**18, the default of _to_int_safe: larger than every price
BIG_DEFAULT == 1000000000

_to_int_safe(x, default) == IF IntParses(x) THEN x.val ELSE default

\* `int(lp) if lp and str(lp).isdigit() else None` (main, lines 1336, 1379)
lprice_to_int(lp) == IF lp.kind = "digits" THEN Some(lp.val) ELSE None

\* ------------------------------------------------------------------------
\* Strings of the program text.  A Hangul syllable is one character, written
\* here as its romanisation ("keo","beo" is the two-character word of line
\* 184); lower() and upper() leave it unchanged.
\* ------------------------------------------------------------------------
bad_terms == { <<"ho","hwan">>, <<"ke","i_","seu">>, <<"pil","reum">>,
               <<"seu","ti","keo">>, <<"ri","pil">>, <<"keo","beo">> }

trust_mall_terms == { <<"gong","sik">>, <<"beu","raen","deu">>, <<"baek","hwa","jeom">>,
                      <<"hyeon","dae">>, <<"rot","de">>, <<"sin","se","gye">>,
                      <<"ne","i_","beo">>, <<"seu","ma","teu","seu","to","eo">> }

BrandEn == <<"c","o","l","u","m","b","i","a">>
BrandKo == <<"keol","reom","bi","a_">>

\* ------------------------------------------------------------------------
\* filter_items_for_accuracy
\* ------------------------------------------------------------------------
lowered_excludes(exclude_malls) ==
    { Lower(Strip(e)) : e \in { x \in exclude_malls : Strip(x) # << >> } }

KeepItem(it, min_price, max_price, exclude_malls) ==
    LET lp == _to_int_safe(it.lprice, -1)
        mall == Lower(Strip(it.mallName))
        title == Lower(strip_html_tags(it.title))
    IN  /\ ~(min_price # None /\ lp < min_price[1])
        /\ ~(max_price # None /\ lp > max_price[1])
        /\ ~(\E ex \in lowered_excludes(exclude_malls) : Contains(ex, mall))
        /\ ~(\E t \in bad_terms : Contains(t, title))

RECURSIVE KeepEveryOther(_, _, _, _, _)
KeepEveryOther(items, min_price, max_price, exclude_malls, skip) ==
    IF items = << >> THEN << >>
    ELSE LET keep == KeepItem(Head(items), min_price, max_price, exclude_malls)
             rest == KeepEveryOther(Tail(items), min_price, max_price, exclude_malls,
                                    IF keep THEN ~skip ELSE skip)
         IN  IF keep /\ ~skip THEN <<Head(items)>> \o rest ELSE rest

filter_items_every_other(items, min_price, max_price, exclude_malls) ==
    KeepEveryOther(items, min_price, max_price, exclude_malls, FALSE)
RECURSIVE filter_items_for_accuracy(_, _, _, _)
filter_items_for_accuracy(items, min_price, max_price, exclude_malls) ==
    IF items = << >> THEN << >>
    ELSE LET rest == filter_items_for_accuracy(Tail(items), min_price, max_price, exclude_malls)
         IN  IF KeepItem(Head(items), min_price, max_price, exclude_malls)
             THEN <<Head(items)>> \o rest
             ELSE rest

\* ------------------------------------------------------------------------
\* pick_lowest_item, pick_top_n_by_price
\* ------------------------------------------------------------------------
\* the sort key `lp` of both functions
lp_key(it) == _to_int_safe(it.lprice, BIG_DEFAULT)

\* min(items, key=lp): the first item of least key
RECURSIVE MinFrom(_, _, _)
MinFrom(items, i, cur) ==
    IF i > Len(items) THEN cur
    ELSE MinFrom(items, i + 1, IF lp_key(items[i]) < lp_key(cur) THEN items[i] ELSE cur)

RECURSIVE MinFromLast(_, _, _)
MinFromLast(items, i, cur) ==
    IF i > Len(items) THEN cur
    ELSE MinFromLast(items, i + 1, IF lp_key(items[i]) <= lp_key(cur) THEN items[i] ELSE cur)

pick_lowest_last(items) ==
    IF items = << >> THEN None ELSE Some(MinFromLast(items, 2, items[1]))
pick_lowest_item(items) ==
    IF items = << >> THEN None ELSE Some(MinFrom(items, 2, items[1]))

RECURSIVE InsertBeforeEqual(_, _)
InsertBeforeEqual(sorted, it) ==
    IF sorted = << >> THEN <<it>>
    ELSE IF lp_key(it) <= lp_key(Head(sorted))
         THEN <<it>> \o sorted
         ELSE <<Head(sorted)>> \o InsertBeforeEqual(Tail(sorted), it)

\* sorted(items, key=lp): stable, an insertion after the items of equal key
RECURSIVE InsertSorted(_, _)
InsertSorted(sorted, it) ==
    IF sorted = << >> THEN <<it>>
    ELSE IF lp_key(it) < lp_key(Head(sorted))
         THEN <<it>> \o sorted
         ELSE <<Head(sorted)>> \o InsertSorted(Tail(sorted), it)

RECURSIVE SortedFrom(_, _, _)
SortedFrom(items, i, acc) ==
    IF i > Len(items) THEN acc ELSE SortedFrom(items, i + 1, InsertSorted(acc, items[i]))

sorted_by_price(items) == SortedFrom(items, 1, << >>)

Prefix(s, n) == SubSeq(s, 1, IF Len(s) < n THEN Len(s) ELSE n)

pick_top_n_short(items, n) ==
    IF items = << >> THEN << >> ELSE Prefix(sorted_by_price(items), n - 1)
pick_top_n_by_price(items, n) ==
    IF items = << >> THEN << >> ELSE Prefix(sorted_by_price(items), n)

\* ------------------------------------------------------------------------
\* compute_confidence
\* ------------------------------------------------------------------------
ConfidenceOf(style_code, it) ==
    LET title == Lower(strip_html_tags(it.title))
        mall == Lower(it.mallName)
        code_l == Lower(style_code)
    IN  (IF code_l # << >> /\ Contains(code_l, title) THEN 2 ELSE 0)
        + (IF Contains(BrandEn, title) \/ Contains(BrandKo, title) THEN 1 ELSE 0)
        + (IF \E t \in trust_mall_terms : Contains(t, mall) THEN 1 ELSE 0)

compute_confidence_code3(style_code, best_item) ==
    IF best_item = None THEN 0
    ELSE LET s == ConfidenceOf(style_code, best_item[1])
             title == Lower(strip_html_tags(best_item[1].title))
         IN  IF Lower(style_code) # << >> /\ Contains(Lower(style_code), title)
             THEN s + 1 ELSE s
compute_confidence(style_code, best_item) ==
    IF best_item = None THEN 0
    ELSE LET s == ConfidenceOf(style_code, best_item[1])
         IN  IF s > 0 THEN s ELSE 0

\* ------------------------------------------------------------------------
\* choose_best_image
\* ------------------------------------------------------------------------
RECURSIVE FirstImage(_)
FirstImage(its) ==
    IF its = << >> THEN << >>
    ELSE IF Strip(Head(its).image) # << >> THEN Strip(Head(its).image)
         ELSE FirstImage(Tail(its))

choose_best_image_best_only(best_item, top_items) ==
    IF best_item # None THEN Strip(best_item[1].image) ELSE << >>
choose_best_image(best_item, top_items) ==
    IF best_item # None /\ Strip(best_item[1].image) # << >>
    THEN Strip(best_item[1].image)
    ELSE FirstImage(top_items)

\* ------------------------------------------------------------------------
\* State
\* ------------------------------------------------------------------------
VARIABLES
    pc,                 \* position of the program
    row_i,              \* rows of the input the main loop has consumed
    clock,              \* time.time(), in hours
    cache,              \* cache directory: cache key -> file
    official_img_map,   \* build_official_image_map(...): CODE -> image URL
    prev_csv,           \* the previous result CSV, None when there is none
    prev_map,           \* load_previous_prices(prev_csv)
    args,               \* --min_price, --max_price, --exclude_malls
    style_code, official_price, source, items, best, top3_items,
    naver_price, naver_image, official_image, final_image, conf,
    results, kept, skipped_no_price, skipped_no_img,
    attempt, requests, backoff, last_outcome, fetched, api_calls, exhausted,
    filtered,           \* filter_items_for_accuracy(items, ...)
    refiltered,         \* filter_items_for_accuracy(filtered, ...)
    history_dir,        \* --history_dir: whether it is a directory, and its listing
    today_mmdd,         \* datetime.now().strftime("%m%d")
    prev_csv_path,      \* find_previous_result_csv(history_dir, today_mmdd)
    written,            \* the output files of the run written so far
    cache_writes,       \* calls of save_cache so far
    failed_saved,       \* cache keys whose file holds the [] of a failed fetch
    client_id,          \* os.getenv("NAVER_CLIENT_ID", "")
    client_secret,      \* os.getenv("NAVER_CLIENT_SECRET", "")
    input_cfg,          \* --input and the files of the working directory
    input_path,         \* pick_input_file(args.input)
    exit_info,          \* how the process ended: exception and exit status
    n_candidates,       \* rows consumed so far whose code cell holds a code
    brand_i,            \* entries of BRANDS the banner collector is done with
    brand_attempt,      \* `attempt` of the banner collector's main loop
    brand_ok,
    brand_rows,
    all_rows,           \* `rows` of the banner collector: the banners so far
    browser_open,       \* the browser and its context are usable
    IMG_URL_CACHE,      \* img_url -> local filename, None when not cached
    dl_count,           \* calls of download_bytes per URL, counted up to 2
    processed,          \* brand keys in the order their rows joined `rows`
    hero_files,         \* output files of the banner collector that exist
    hero_exit,          \* how the banner collector ended
    last_error,         \* the exception the handler of the brand loop just caught
    prog_fail,          \* PROG.fail: the brands counted as failed
    dedupe_in,          \* a list of banners handed to dedupe_brand_rows
    dedupe_out,         \* what dedupe_brand_rows returns for it
    dedupe_again,       \* what it returns for its own output
    forum_days,         \* `days` of crawl_dc_engine
    forum_pages,        \* list pages crawl_dc_engine has requested
    forum_posts,        \* the days on which the posts collected so far were created
    forum_stop,         \* stop_signal
    dash_tab,           \* the tab whose button has data-active="1"
    dash_quick,         \* quick: which chips are on
    dash_state,         \* state: qEn, qKo, qCode, sortMode, hasSearched
    dash_hidden,        \* per tab, the cards with data-hidden="1"
    dash_order          \* per tab, the cards in document order

vars == <<pc, row_i, clock, cache, official_img_map, prev_csv, prev_map, args,
          style_code, official_price, source, items, best, top3_items,
          naver_price, naver_image, official_image, final_image, conf,
          results, kept, skipped_no_price, skipped_no_img,
          attempt, requests, backoff, last_outcome, fetched, api_calls, exhausted,
          filtered, refiltered, history_dir, today_mmdd, prev_csv_path,
          written, cache_writes, failed_saved, client_id, client_secret, input_cfg, input_path,
          exit_info, n_candidates, brand_i, brand_attempt, brand_ok, brand_rows, all_rows,
          browser_open, IMG_URL_CACHE, dl_count, processed, hero_files, hero_exit,
          last_error, prog_fail, dedupe_in, dedupe_out, dedupe_again,
          forum_days, forum_pages, forum_posts, forum_stop,
          dash_tab, dash_quick, dash_state, dash_hidden, dash_order>>

\* ------------------------------------------------------------------------
\* Input data
\* ------------------------------------------------------------------------
CodeA == <<"C","7","A">>
CodeB == <<"c","6","/","b">>

MallOfficial == <<"gong","sik","m","a","l","l">>
MallNone == <<"n","o","m","a","l","l">>
MallPadded == <<" ","N","o","M","a","l","l"," ">>
MallDept == <<"hyeon","dae","H">>

TitleFull == <<"<","b",">","C","7","A","<","/","b",">"," ","C","o","l","u","m","b","i","a">>
TitlePlain == <<"j","a","c","k","e","t">>
TitleCover == <<"c","7","a"," ","keo","beo">>
TitleKo == <<"keol","reom","bi","a_"," ","<",">","x">>
TitleBrand == <<"C","O","L","U","M","B","I","A"," ","c","6","/","b">>

ImgN1 == <<"n","1">>
ImgN2 == <<"n","2">>
ImgBlank == <<" ">>
ImgO1 == <<"/","d","a","t","a","/","o","1">>
ImgO2 == <<"/","d","a","t","a","/","o","2">>

Item(lp, mall, title, image) ==
    [lprice |-> lp, mallName |-> mall, title |-> title, image |-> image]

I1 == Item(LDigits(2), MallOfficial, TitleFull, ImgN1)
I2 == Item(LDigits(2), MallNone, TitlePlain, << >>)
I3 == Item(LDigits(1), MallNone, TitleCover, ImgN2)
I4 == Item(LSigned(-1), MallDept, TitleKo, ImgBlank)
I5 == Item(LJunk, << >>, << >>, ImgN1)
I6 == Item(LDigits(3), MallPadded, TitleBrand, ImgN2)
\* an item the API prices at "0"
I7 == Item(LDigits(0), MallNone, TitlePlain, ImgN1)

ItemSet == {I1, I2, I3, I4, I5, I6}

SeqsUpTo(S, n) == UNION { [1..k -> S] : k \in 0..n }

\* ------------------------------------------------------------------------
\* _to_int_price: the official price cell of the input CSV.  kind "nan": an
\* empty cell; "int": an integer or a string whose digits spell val; "float":
\* the float val.0, whose str() is "val.0"; "text": a cell without digits.
\* ------------------------------------------------------------------------
ONaN == [kind |-> "nan", val |-> 0]
OInt(n) == [kind |-> "int", val |-> n]
OFloat(n) == [kind |-> "float", val |-> n]
OText == [kind |-> "text", val |-> 0]

_to_int_price(x) ==
    CASE x.kind = "nan" -> None
      [] x.kind = "int" -> Some(x.val)
      [] x.kind = "float" -> Some(10 * x.val)
      [] OTHER -> None

\* ------------------------------------------------------------------------
\* API cache
\* ------------------------------------------------------------------------
SanitizeChar(c) ==
    IF IsIn(c, UpperLetters) \/ IsIn(c, LowerLetters) \/ c \in Digits \/ c \in {"_", "-"}
    THEN c ELSE "_"

\* the file name of cache_path, without directory and ".json"
cache_path(code) == LET t == Strip(code) IN [i \in 1..Len(t) |-> SanitizeChar(t[i])]

SecPerHour == 3600

NoFile == [exists |-> FALSE, mtime |-> 0, valid |-> FALSE, items |-> << >>]
File(mtime, its) == [exists |-> TRUE, mtime |-> mtime, valid |-> TRUE, items |-> its]
\* a file whose content json.load rejects or whose "items" is not a list
BadFile(mtime) == [exists |-> TRUE, mtime |-> mtime, valid |-> FALSE, items |-> << >>]

load_cache_no_ttl(dir, code, ttl_hours, now) ==
    LET f == dir[cache_path(code)]
    IN  IF ~f.exists THEN None
        ELSE IF f.valid THEN Some(f.items) ELSE None
load_cache(dir, code, ttl_hours, now) ==
    LET f == dir[cache_path(code)]
    IN  IF ~f.exists THEN None
        ELSE IF (now - f.mtime) * SecPerHour > ttl_hours * SecPerHour THEN None
        ELSE IF f.valid THEN Some(f.items) ELSE None

save_cache(dir, code, its, now) == [dir EXCEPT ![cache_path(code)] = File(now, its)]

\* ------------------------------------------------------------------------
\* load_previous_prices: a cell of the column of lowest prices is an integer
\* ("int"), empty ("nan"), a float val + 0.5 ("frac") or text ("text")
\* ------------------------------------------------------------------------
PInt(n) == [kind |-> "int", val |-> n]
PNaN == [kind |-> "nan", val |-> 0]
PFrac(n) == [kind |-> "frac", val |-> n]
PText == [kind |-> "text", val |-> 0]

to_int_or_none(v) ==
    CASE v.kind = "int" -> Some(v.val)
      [] v.kind = "frac" -> Some(v.val)
      [] OTHER -> None

RECURSIVE PrevFrom(_, _)
PrevFrom(rows, prev) ==
    IF rows = << >> THEN prev
    ELSE LET code == Strip(Head(rows).code)
         IN  PrevFrom(Tail(rows),
                 IF code = << >> THEN prev
                 ELSE [c \in (DOMAIN prev) \cup {code} |->
                          IF c = code THEN to_int_or_none(Head(rows).price) ELSE prev[c]])

EmptyMap == [c \in {} |-> None]

load_previous_prices(rows) == PrevFrom(rows, EmptyMap)

\* prev_map.get(style_code, {}).get("prev_naver")
prev_lookup(prev, code) == IF code \in DOMAIN prev THEN prev[code] ELSE None

delta_or_zero(price, prev_naver) ==
    IF prev_naver # None THEN Some(price - prev_naver[1]) ELSE Some(0)
\* lines 1370-1372
delta_of(price, prev_naver) ==
    IF prev_naver # None THEN Some(price - prev_naver[1]) ELSE None

diff_of_unguarded(official, price) ==
    IF official # None THEN Some(official[1] - price) ELSE None
\* lines 1365-1367
diff_of(official, price) ==
    IF official # None /\ price > 0 THEN Some(official[1] - price) ELSE None

\* ------------------------------------------------------------------------
\* fetch_naver_shop_with_retry
\* ------------------------------------------------------------------------
max_retries_more == 4 + 1
max_retries == 4

RECURSIVE Pow2(_)
Pow2(n) == IF n = 0 THEN 1 ELSE 2 * Pow2(n - 1)

\* line 145: the HTTP error is retried
http_error_retries_all(n, code) == n < max_retries
http_error_retries(n, code) ==
    n < max_retries /\ (code \in {429, 500, 502, 503, 504} \/ code >= 500)

\* lines 150-154: what the handler of `except Exception` does
on_exception_raise(n) == IF n < max_retries THEN "retry" ELSE "raise"
on_exception(n) == IF n < max_retries THEN "retry" ELSE "return"

NoOutcome == [kind |-> "none", code |-> 0]
OkOutcome == [kind |-> "ok", code |-> 0]
HttpOutcome(code) == [kind |-> "http", code |-> code]
ExcOutcome == [kind |-> "exc", code |-> 0]

HttpCodes == {401, 404, 429, 500, 503, 599}

\* what a request can end in
Outcomes == {OkOutcome, ExcOutcome} \cup { HttpOutcome(c) : c \in HttpCodes }

\* lines 138-154, one pass of the loop body on the outcome o of the request:
\* "items" returns the payload's items, "return" returns [], "retry" sleeps
\* and continues, "raise" lets the exception leave the function
attempt_result(n, o) ==
    CASE o.kind = "ok" -> "items"
      [] o.kind = "http" -> IF http_error_retries(n, o.code) THEN "retry" ELSE "return"
      [] OTHER -> on_exception(n)

\* line 133: `for attempt in range(max_retries + 1)` has a pass left
in_range(n) == n < max_retries + 1

\* the complete calls of fetch_naver_shop_with_retry from pass n on: how the
\* call ends ("items", "empty" for [], "raise"), the outcome of its last
\* request, the number of requests and the sum of the backoff sleeps (in
\* units of base_sleep)
RECURSIVE FetchRuns(_)
FetchRuns(n) ==
    IF ~in_range(n)
    THEN { [kind |-> "empty", last |-> NoOutcome, requests |-> 0, backoff |-> 0] }
    ELSE LET rest == FetchRuns(n + 1)
         IN  UNION { LET res == attempt_result(n, o)
                     IN  IF res = "retry"
                         THEN { [kind |-> r.kind,
                                 last |-> IF r.requests = 0 THEN o ELSE r.last,
                                 requests |-> r.requests + 1,
                                 backoff |-> r.backoff + Pow2(n)] : r \in rest }
                         ELSE { [kind |-> IF res = "return" THEN "empty" ELSE res,
                                 last |-> o, requests |-> 1, backoff |-> 0] }
                   : o \in Outcomes }

\* the calls as the main loop sees them: how the call ended, the kind of its
\* last outcome, and whether a failure used up every pass
CallResults ==
    { [kind |-> r.kind, last |-> [kind |-> r.last.kind, code |-> 0],
       exhausted |-> (r.kind # "items" /\ r.requests = max_retries + 1)] : r \in FetchRuns(0) }

\* ------------------------------------------------------------------------
\* Inputs of one run
\* ------------------------------------------------------------------------
CellA == <<" ">> \o CodeA
CellBlank == <<" ", " ">>
CellNaN == <<"N", "a", "N">>

RowSet == { [code |-> CellA, official_raw |-> OInt(3)],
            [code |-> CodeB, official_raw |-> ONaN],
            [code |-> CellBlank, official_raw |-> OInt(3)],
            [code |-> CellNaN, official_raw |-> OInt(3)] }

\* what the search API answers to a query
ApiResponses == { << >>, <<I3, I2, I1>>, <<I2>>, <<I4, I6>>, <<I6, I7>> }

\* 1 when the code cell of a row holds a code (something other than white
\* space and other than the text "nan" pandas gives an empty cell), else 0
HasCode(cell) ==
    IF (\E i \in 1..Len(cell) : cell[i] \notin Whitespace)
        /\ Lower(Strip(cell)) # <<"n", "a", "n">>
    THEN 1 ELSE 0

code_missing_never(code) == FALSE
\* line 1301: the row has no usable code
code_missing(code) == code = << >> \/ Lower(code) = <<"n", "a", "n">>

CacheKeys == { cache_path(r.code) : r \in { x \in RowSet : ~code_missing(Strip(x.code)) } }

\* --cache_ttl_hours, default
cache_ttl_default == 12
\* the hour the run starts at: a file written at hour 0 is 13 hours old
StartClock == cache_ttl_default + 1

CacheWith(f) == [k \in CacheKeys |-> IF k = cache_path(CodeA) THEN f ELSE NoFile]

OfficialNone == EmptyMap
OfficialBoth == [c \in {CodeA, Upper(CodeB)} |-> IF c = CodeA THEN ImgO1 ELSE ImgO2]

CsvA == << [code |-> CodeA, price |-> PInt(2)], [code |-> CodeB, price |-> PText] >>
CsvB == << [code |-> CellBlank, price |-> PInt(9)], [code |-> CodeB, price |-> PFrac(1)] >>
CsvC == << [code |-> CellA, price |-> PInt(0)], [code |-> CodeA, price |-> PNaN],
           [code |-> CodeB, price |-> PInt(3)] >>

ArgsDefault == [min_price |-> None, max_price |-> None, exclude_malls |-> {},
                cache_ttl_hours |-> cache_ttl_default]
ArgsStrict == [min_price |-> Some(1), max_price |-> Some(2),
               exclude_malls |-> {<<" ", "N", "O", "M">>, <<" ">>},
               cache_ttl_hours |-> 0]

\* the situations a run starts in: cache directory, official image map,
\* previous result CSV and command line
EnvSet ==
    { [cache |-> CacheWith(NoFile), official |-> OfficialNone, prev |-> None,
       args |-> ArgsDefault],
      [cache |-> CacheWith(File(0, <<I1>>)), official |-> OfficialBoth, prev |-> Some(CsvA),
       args |-> ArgsDefault],
      [cache |-> CacheWith(File(1, <<I2>>)), official |-> OfficialNone, prev |-> Some(CsvB),
       args |-> ArgsDefault],
      [cache |-> CacheWith(File(StartClock, << >>)), official |-> OfficialBoth,
       prev |-> Some(CsvC), args |-> ArgsStrict],
      [cache |-> CacheWith(BadFile(StartClock)), official |-> OfficialNone,
       prev |-> Some(CsvA), args |-> ArgsStrict] }

\* ------------------------------------------------------------------------
\* The body of the main loop after the items are known (lines 1325-1415)
\* ------------------------------------------------------------------------
\* official_img_map.get(code_u, "")
official_lookup(mp, code_u) == IF code_u \in DOMAIN mp THEN mp[code_u] ELSE << >>

final_image_naver_first(official, naver) == IF naver # << >> THEN naver ELSE official
\* line 1349
final_image_of(official, naver) == IF official # << >> THEN official ELSE naver

image_present_always(img) == TRUE
\* line 1359, negated
image_present(img) == img # << >> /\ Strip(img) # << >>

Top3Rows(its) ==
    [i \in 1..Len(its) |->
        [lprice |-> lprice_to_int(its[i].lprice), mallName |-> its[i].mallName]]

OutputRow(code, official, b, t3, price, o_img, n_img, f_img) ==
    [code |-> code,
     official_price |-> official,
     naver_price |-> price,
     diff |-> diff_of(official, price[1]),
     mall |-> b[1].mallName,
     final_image |-> f_img,
     official_image |-> o_img,
     naver_image |-> n_img,
     naver_title |-> strip_html_tags(b[1].title),
     confidence |-> compute_confidence(code, b),
     top3 |-> Top3Rows(t3),
     prev_naver |-> prev_lookup(prev_map, code),
     delta_naver |-> delta_of(price[1], prev_lookup(prev_map, code))]

ProcessItems(code, official, raw_items) ==
    LET its == filter_items_for_accuracy(raw_items, args.min_price, args.max_price,
                                         args.exclude_malls)
        b == pick_lowest_item(its)
        t3 == pick_top_n_by_price(its, 3)
        price == IF b # None THEN lprice_to_int(b[1].lprice) ELSE None
        n_img == choose_best_image(b, t3)
        o_img == official_lookup(official_img_map, Upper(code))
        f_img == final_image_of(o_img, n_img)
    IN  /\ items' = its
        /\ best' = b
        /\ top3_items' = t3
        /\ naver_price' = price
        /\ naver_image' = n_img
        /\ official_image' = o_img
        /\ final_image' = f_img
        /\ IF price = None
           THEN /\ skipped_no_price' = skipped_no_price + 1
                /\ UNCHANGED <<results, kept, skipped_no_img, conf>>
           ELSE IF ~image_present(f_img)
           THEN /\ skipped_no_img' = skipped_no_img + 1
                /\ UNCHANGED <<results, kept, skipped_no_price, conf>>
           ELSE /\ results' = Append(results,
                        OutputRow(code, official, b, t3, price, o_img, n_img, f_img))
                /\ conf' = compute_confidence(code, b)
                /\ kept' = kept + 1
                /\ UNCHANGED <<skipped_no_price, skipped_no_img>>

callVars == <<attempt, requests, backoff>>
fetchVars == <<attempt, requests, backoff, last_outcome, fetched, api_calls, exhausted>>
envVars == <<clock, official_img_map, prev_csv, prev_map, args>>
localVars == <<items, best, top3_items, naver_price, naver_image, official_image,
               final_image, conf>>
outVars == <<results, kept, skipped_no_price, skipped_no_img, written, cache_writes,
             failed_saved>>
rowVars == <<row_i, cache, official_price, source, n_candidates>>
filterVars == <<filtered, refiltered>>
\* the state of the functions and programs the main loop does not touch
dirVars == <<history_dir, today_mmdd, prev_csv_path>>
startVars == <<client_id, client_secret, input_cfg, input_path, exit_info>>
heroVars == <<brand_i, brand_attempt, brand_ok, brand_rows, all_rows, browser_open,
              IMG_URL_CACHE, dl_count, processed, hero_files, hero_exit, last_error, prog_fail>>
dedupeVars == <<dedupe_in, dedupe_out, dedupe_again>>
forumVars == <<forum_days, forum_pages, forum_posts, forum_stop>>
dashVars == <<dash_tab, dash_quick, dash_state, dash_hidden, dash_order>>
restVars == <<dedupeVars, forumVars, dashVars>>
extVars == <<filterVars, dirVars, startVars, heroVars, restVars>>

\* ------------------------------------------------------------------------
\* Actions of the main loop
\* ------------------------------------------------------------------------
\* lines 1300-1302: a row without a code is passed over
SkipRow ==
    /\ pc = "loop" /\ row_i < MaxRows
    /\ \E r \in RowSet :
        /\ code_missing(Strip(r.code))
        /\ style_code' = Strip(r.code)
        /\ n_candidates' = n_candidates + HasCode(r.code)
    /\ row_i' = row_i + 1
    /\ source' = "none"
    /\ UNCHANGED <<pc, cache, official_price>>
    /\ UNCHANGED <<envVars, localVars, outVars, fetchVars, extVars>>

\* lines 1315-1318 and 1325-1415: the cache answers
CacheHit ==
    /\ pc = "loop" /\ row_i < MaxRows
    /\ \E r \in RowSet :
        LET code == Strip(r.code)
            cached == load_cache(cache, code, args.cache_ttl_hours, clock)
        IN  /\ ~code_missing(code)
            /\ cached # None
            /\ style_code' = code
            /\ n_candidates' = n_candidates + HasCode(r.code)
            /\ official_price' = _to_int_price(r.official_raw)
            /\ ProcessItems(code, _to_int_price(r.official_raw), cached[1])
    /\ source' = "cache"
    /\ row_i' = row_i + 1
    /\ UNCHANGED <<pc, cache, envVars, fetchVars, extVars, written, cache_writes, failed_saved>>

\* lines 1319-1323 and 1325-1415: a miss; fetch_naver_shop_with_retry runs to
\* its end, its result is cached and the row is processed
CacheMiss ==
    /\ pc = "loop" /\ row_i < MaxRows
    /\ \E r \in RowSet, run \in CallResults, resp \in ApiResponses :
        LET code == Strip(r.code)
            got == IF run.kind = "items" THEN resp ELSE << >>
        IN  /\ ~code_missing(code)
            /\ load_cache(cache, code, args.cache_ttl_hours, clock) = None
            /\ style_code' = code
            /\ official_price' = _to_int_price(r.official_raw)
            /\ last_outcome' = run.last
            /\ exhausted' = run.exhausted
            /\ IF run.kind = "raise"
               THEN /\ pc' = "aborted"
                    /\ UNCHANGED <<row_i, cache, fetched, localVars, outVars, n_candidates>>
               ELSE /\ pc' = "loop"
                    /\ fetched' = got
                    /\ cache' = save_cache(cache, code, got, clock)
                    /\ cache_writes' = cache_writes + 1
                    /\ failed_saved' = IF run.kind = "items"
                                       THEN failed_saved \ {cache_path(code)}
                                       ELSE failed_saved \cup {cache_path(code)}
                    /\ UNCHANGED written
                    /\ ProcessItems(code, _to_int_price(r.official_raw), got)
                    /\ row_i' = row_i + 1
                    /\ n_candidates' = n_candidates + HasCode(r.code)
    /\ source' = "api"
    /\ api_calls' = api_calls + 1
    /\ UNCHANGED <<envVars, callVars, extVars>>

\* lines 1417-1439: the input is used up, the outputs are written
Finish ==
    /\ pc = "loop"
    /\ pc' = "done"
    /\ written' = {"csv", "html"}
    /\ UNCHANGED <<results, kept, skipped_no_price, skipped_no_img, cache_writes, failed_saved>>
    /\ UNCHANGED <<style_code, rowVars, envVars, localVars, fetchVars, extVars>>

\* time passes between two rows (time.sleep, line 1415)
Tick ==
    /\ pc = "loop"
    /\ clock < MaxClock
    /\ clock' = clock + 1
    /\ UNCHANGED <<pc, style_code, official_img_map, prev_csv, prev_map, args>>
    /\ UNCHANGED <<rowVars, localVars, outVars, fetchVars, extVars>>

InitLocals ==
    /\ official_price = None /\ source = "none"
    /\ naver_price = None /\ naver_image = << >> /\ official_image = << >>
    /\ final_image = << >>
    /\ results = << >> /\ kept = 0 /\ skipped_no_price = 0 /\ skipped_no_img = 0
    /\ written = {} /\ cache_writes = 0 /\ failed_saved = {}
    /\ row_i = 0 /\ n_candidates = 0

InitCall ==
    /\ attempt = 0 /\ requests = 0 /\ backoff = 0
    /\ last_outcome = NoOutcome /\ fetched = << >> /\ api_calls = 0
    /\ exhausted = FALSE

InitFilterVars == filtered = << >> /\ refiltered = << >>

InitDirVars ==
    /\ history_dir = [isdir |-> FALSE, listing |-> << >>]
    /\ today_mmdd = << >>
    /\ prev_csv_path = None

NoExit == [kind |-> "none", status |-> 0]
\* `raise SystemExit(message)`: the message is printed, the exit status is 1
SystemExitWith == [kind |-> "SystemExit", status |-> 1]
\* an exception main does not catch: a traceback, the exit status is 1
Uncaught(name) == [kind |-> name, status |-> 1]

NoInputCfg == [input |-> None, explicit_exists |-> FALSE, default_exists |-> FALSE,
               globbed |-> << >>, content |-> "rows"]

InitStartVars ==
    /\ client_id = << >> /\ client_secret = << >>
    /\ input_cfg = NoInputCfg
    /\ input_path = None
    /\ exit_info = NoExit

\* ------------------------------------------------------------------------
\* The banner collector (src/hero_main_top3_final_PRETTY_WHITE_FINAL_FIXED.py).
\* An image URL is a string; an href is [path, query, fragment] with the
\* query a sequence of parameter names, the empty href being NoHref; a local
\* file name is [brand_key, rank, digest] and "" is None.
\* ------------------------------------------------------------------------
U1 == <<"u", "1">>
U2 == <<"u", "2">>
Urls == {U1, U2}

NoHref == [path |-> << >>, query |-> << >>, fragment |-> << >>]
Href(path, query, fragment) == [path |-> path, query |-> query, fragment |-> fragment]

KeyId == <<"i", "d">>
KeyUtm == <<"u", "t", "m", "_", "i", "d">>
KeyNaPm == <<"N", "a", "P", "m">>

drop_prefixes == { <<"u", "t", "m", "_">> }
drop_keys == { <<"f", "b", "c", "l", "i", "d">>, <<"g", "c", "l", "i", "d">>,
               <<"w", "b", "r", "a", "i", "d">>, <<"g", "b", "r", "a", "i", "d">>,
               KeyNaPm, <<"n", "a", "c", "n">>,
               <<"s", "m", "s", "_", "c", "l", "i", "c", "k">>,
               <<"i", "g", "s", "h", "i", "d">> }

RECURSIVE KeptKeys(_)
KeptKeys(qs) ==
    IF qs = << >> THEN << >>
    ELSE IF (\E p \in drop_prefixes :
                Len(Head(qs)) >= Len(p) /\ SubSeq(Head(qs), 1, Len(p)) = p)
            \/ Head(qs) \in drop_keys
         THEN KeptKeys(Tail(qs))
         ELSE <<Head(qs)>> \o KeptKeys(Tail(qs))

\* normalize_href: the tracking parameters and the fragment are dropped
normalize_href(href) ==
    IF href = NoHref THEN NoHref
    ELSE [path |-> href.path, query |-> KeptKeys(href.query), fragment |-> << >>]

\* sha1(s): ten hex digits of the digest, written as the text it digests
sha1(s) == <<"#">> \o s

\* safe_filename(f"{brand_key}_{rank}_{sha1(img_url)}", out_ext)
FileNameOf(brand_key, rank, img_url) ==
    [brand_key |-> brand_key, rank |-> rank, digest |-> sha1(img_url)]

\* what download_bytes and the writing of the file come to: "none" is no
\* content, "saved" a file written, "write_fail" an exception while writing
DownloadOutcomes == {"none", "saved", "write_fail"}

EmptyCache == [u \in Urls |-> None]

\* save_and_resize_image: (local_filename, status), the cache after the call
\* and whether download_bytes was called
save_and_resize_image(url_cache, img_url, brand_key, rank, outcome) ==
    IF img_url = << >>
    THEN [img_local |-> None, status |-> "no_url", cache |-> url_cache, downloaded |-> FALSE]
    ELSE IF img_url \in DOMAIN url_cache /\ url_cache[img_url] # None
    THEN [img_local |-> url_cache[img_url], status |-> "cached", cache |-> url_cache,
          downloaded |-> FALSE]
    ELSE IF outcome = "saved"
    THEN [img_local |-> Some(FileNameOf(brand_key, rank, img_url)), status |-> "ok",
          cache |-> [url_cache EXCEPT ![img_url] = Some(FileNameOf(brand_key, rank, img_url))],
          downloaded |-> TRUE]
    ELSE [img_local |-> None, status |-> "download_fail", cache |-> url_cache,
          downloaded |-> TRUE]

img_status_raw(img_local, st) == st
\* `b.img_status = "ok" if img_local else st`
img_status_of(img_local, st) == IF img_local # None THEN "ok" ELSE st

\* Banner(date_s, brand_key, brand_name, rank, title, href, img_url, img_local)
\* with href_clean and img_status set as every extractor sets them
Banner(brand_key, rank, href, img_url, saved) ==
    [brand_key |-> brand_key, rank |-> rank, href |-> href,
     href_clean |-> normalize_href(href), img_url |-> img_url,
     img_local |-> saved.img_local,
     img_status |-> img_status_of(saved.img_local, saved.status)]

\* ------------------------------------------------------------------------
\* The pages of the brands: what an extractor finds on a page is a sequence
\* of elements [href, img_url], hrefs and image URLs already absolute
\* ------------------------------------------------------------------------
H1 == Href(<<"/", "a">>, <<KeyId>>, << >>)
H1Tracked == Href(<<"/", "a">>, <<KeyUtm, KeyId, KeyNaPm>>, <<"t">>)
H2 == Href(<<"/", "b">>, << >>, << >>)

Element(href, img_url) == [href |-> href, img_url |-> img_url]
E0 == Element(NoHref, << >>)
E1 == Element(H1Tracked, U1)
E2 == Element(H1, U1)
E3 == Element(H2, U1)
E4 == Element(NoHref, U1)
E5 == Element(H2, << >>)
E6 == Element(NoHref, U2)

Pages == { << >>, <<E1, E2, E3>>, <<E4, E6, E4>>, <<E5, E0, E1, E6>> }

\* the elements an extractor has gone through when it raises
PagesInPart == { Prefix(els, done) : els \in Pages, done \in 0..4 }

\* BRANDS: (key, mode, max items) of each entry
Brand(key, mode, mx) == [key |-> key, mode |-> mode, mx |-> mx]
BRANDS ==
    << Brand("tnf", "tnf_slick", 3), Brand("nepa", "nepa_static", 3),
       Brand("patagonia", "patagonia_static_hero", 1),
       Brand("blackyak", "blackyak_swiper", 3), Brand("discovery", "discovery_swiper", 3),
       Brand("arcteryx", "generic", 3), Brand("salomon", "generic", 3),
       Brand("snowpeak", "generic", 3), Brand("natgeo", "generic", 3),
       Brand("kolonsport", "generic", 3), Brand("k2", "generic", 3),
       Brand("montbell", "generic", 3), Brand("eider", "generic", 3) >>

\* the entries a run goes through
RunBrands == Prefix(BRANDS, MaxBrands)

\* the `uniq` list of tnf_slick and blackyak_swiper, the `seen` keys of
\* discovery_swiper and generic_top_banners
RECURSIVE UniqFrom(_, _)
UniqFrom(els, seen) ==
    IF els = << >> THEN << >>
    ELSE LET it == Head(els)
             key == <<normalize_href(it.href), it.img_url>>
         IN  IF (it.href = NoHref /\ it.img_url = << >>) \/ key \in seen
             THEN UniqFrom(Tail(els), seen)
             ELSE <<it>> \o UniqFrom(Tail(els), seen \cup {key})

AllElements(els) == els
\* nepa_static: a box without image and without href gives no banner
RECURSIVE WithImageOrHref(_)
WithImageOrHref(els) ==
    IF els = << >> THEN << >>
    ELSE IF Head(els).href = NoHref /\ Head(els).img_url = << >>
         THEN WithImageOrHref(Tail(els))
         ELSE <<Head(els)>> \o WithImageOrHref(Tail(els))

\* patagonia_static_hero: the elements with an image, largest first
RECURSIVE WithImage(_)
WithImage(els) ==
    IF els = << >> THEN << >>
    ELSE IF Head(els).img_url = << >> THEN WithImage(Tail(els))
         ELSE <<Head(els)>> \o WithImage(Tail(els))

CountUp(dl, img_url) == [dl EXCEPT ![img_url] = IF @ < 2 THEN @ + 1 ELSE @]

\* the loop every extractor ends with: one banner per element, ranks from
\* `rank` on, at most max_items of them.  acc is [out, cache, dl]; net is how
\* the download of each URL ends during this extraction
RECURSIVE BannersFrom(_, _, _, _, _, _)
BannersFrom(els, rank, max_items, brand_key, net, acc) ==
    IF els = << >> \/ rank > max_items THEN acc
    ELSE LET it == Head(els)
             saved == save_and_resize_image(acc.cache, it.img_url, brand_key, rank,
                          IF it.img_url \in Urls THEN net[it.img_url] ELSE "none")
         IN  BannersFrom(Tail(els), rank + 1, max_items, brand_key, net,
                 [out |-> Append(acc.out, Banner(brand_key, rank, it.href, it.img_url, saved)),
                  cache |-> saved.cache,
                  dl |-> IF saved.downloaded THEN CountUp(acc.dl, it.img_url) ELSE acc.dl])

\* crawl_brand after a successful goto: the extractor of the brand's mode
extract(brand, els, net, acc) ==
    CASE brand.mode = "nepa_static" ->
            BannersFrom(WithImageOrHref(els), 1, brand.mx, brand.key, net, acc)
      [] brand.mode = "patagonia_static_hero" ->
            BannersFrom(Prefix(WithImage(els), 1), 1, 1, brand.key, net, acc)
      [] OTHER ->
            BannersFrom(UniqFrom(els, {}), 1, brand.mx, brand.key, net, acc)

\* sorted(rows, key=lambda x: x.rank): stable
RECURSIVE InsertByRank(_, _)
InsertByRank(sorted, b) ==
    IF sorted = << >> THEN <<b>>
    ELSE IF b.rank < Head(sorted).rank
         THEN <<b>> \o sorted
         ELSE <<Head(sorted)>> \o InsertByRank(Tail(sorted), b)

RECURSIVE SortByRank(_, _, _)
SortByRank(bs, i, acc) ==
    IF i > Len(bs) THEN acc ELSE SortByRank(bs, i + 1, InsertByRank(acc, bs[i]))

RECURSIVE DedupeFrom(_, _, _)
DedupeFrom(bs, seen_href, seen_img) ==
    IF bs = << >> THEN << >>
    ELSE LET b == Head(bs)
             hc == IF b.href_clean # NoHref THEN b.href_clean ELSE normalize_href(b.href)
             iu == Strip(b.img_url)
         IN  IF hc # NoHref
             THEN IF hc \in seen_href
                  THEN DedupeFrom(Tail(bs), seen_href, seen_img)
                  ELSE <<b>> \o DedupeFrom(Tail(bs), seen_href \cup {hc}, seen_img)
             ELSE IF iu # << >>
             THEN IF iu \in seen_img
                  THEN DedupeFrom(Tail(bs), seen_href, seen_img)
                  ELSE <<b>> \o DedupeFrom(Tail(bs), seen_href, seen_img \cup {iu})
             ELSE <<b>> \o DedupeFrom(Tail(bs), seen_href, seen_img)

dedupe_unsorted(bs) ==
    IF bs = << >> THEN bs
    ELSE LET out == DedupeFrom(bs, {}, {})
         IN  [i \in 1..Len(out) |-> [out[i] EXCEPT !.rank = i]]
\* dedupe_brand_rows: the banners kept, ranks renumbered 1..N
dedupe_brand_rows(bs) ==
    IF bs = << >> THEN bs
    ELSE LET out == DedupeFrom(SortByRank(bs, 1, << >>), {}, {})
         IN  [i \in 1..Len(out) |-> [out[i] EXCEPT !.rank = i]]

\* the messages of the exceptions a page or the browser raises
MsgClosed ==
    <<"T", "a", "r", "g", "e", "t", " ", "p", "a", "g", "e", ",", " ", "c",
      "o", "n", "t", "e", "x", "t", " ", "o", "r", " ", "b", "r", "o", "w",
      "s", "e", "r", " ", "h", "a", "s", " ", "b", "e", "e", "n", " ", "c",
      "l", "o", "s", "e", "d">>
MsgTimeout ==
    <<"T", "i", "m", "e", "o", "u", "t", " ", "6", "0", "0", "0", "0", "m",
      "s", " ", "e", "x", "c", "e", "e", "d", "e", "d">>
MsgConnection ==
    <<"C", "o", "n", "n", "e", "c", "t", "i", "o", "n", " ", "c", "l", "o",
      "s", "e", "d">>
closed_marks ==
    { <<"h", "a", "s", " ", "b", "e", "e", "n", " ", "c", "l", "o", "s", "e", "d">>,
      <<"t", "a", "r", "g", "e", "t", " ", "p", "a", "g", "e">>,
      <<"b", "r", "o", "w", "s", "e", "r", " ", "h", "a", "s", " ", "b", "e", "e", "n", " ", "c", "l", "o", "s", "e", "d">> }

\* is_closed_error(e)
is_closed_error(msg) == \E m \in closed_marks : Contains(m, Lower(msg))

\* an exception that reaches the handler of the main loop, and whether the
\* browser is gone when it is raised
Raised(msg, browser_gone) == [msg |-> msg, browser_gone |-> browser_gone]
Errors == { Raised(MsgClosed, TRUE), Raised(MsgConnection, TRUE), Raised(MsgTimeout, FALSE) }

browser_after_error_no_launch(open, e) == open /\ ~e.browser_gone
\* lines 1568-1573: a closed-browser message has the browser closed and
\* launched again; after any other message the browser is what it was
browser_after_error(open, e) == is_closed_error(e.msg) \/ (open /\ ~e.browser_gone)

on_brand_error_reraise(tries) == IF tries < 2 THEN "retry" ELSE "raise"
\* the end of the except branch: `continue` while attempt < 2, then `break`
on_brand_error(tries) == IF tries < 2 THEN "retry" ELSE "give_up"

write_error_swallowed == FALSE
\* write_csv and write_html are called outside any try: an exception of
\* theirs ends the run
write_error_propagates == TRUE

\* the three files of the output stage, in the order they are written
OutFiles == <<"today_snap", "report_csv", "report_html">>
AllOutFiles == {OutFiles[i] : i \in 1..Len(OutFiles)}

RECURSIVE WrittenUntilFailure(_, _)
WrittenUntilFailure(i, failing) ==
    IF i > Len(OutFiles) \/ OutFiles[i] \in failing THEN {}
    ELSE {OutFiles[i]} \cup WrittenUntilFailure(i + 1, failing)

\* lines 1607-1612
exit_status(files) == IF "report_html" \in files THEN 0 ELSE 1

InitHeroVars ==
    /\ brand_i = 0 /\ brand_attempt = 0 /\ brand_ok = FALSE
    /\ brand_rows = << >> /\ all_rows = << >>
    /\ browser_open = TRUE
    /\ IMG_URL_CACHE = EmptyCache
    /\ dl_count = [u \in Urls |-> 0]
    /\ processed = << >>
    /\ hero_files = {} /\ hero_exit = NoExit
    /\ last_error = None /\ prog_fail = 0

InitDedupeVars == dedupe_in = << >> /\ dedupe_out = << >> /\ dedupe_again = << >>

InitForumVars ==
    forum_days = 1 /\ forum_pages = 0 /\ forum_posts = {} /\ forum_stop = FALSE

InitDashVars ==
    /\ dash_tab = << >> /\ dash_quick = << >> /\ dash_state = << >>
    /\ dash_hidden = << >> /\ dash_order = << >>

InitRest == InitDedupeVars /\ InitForumVars /\ InitDashVars

InitExt == InitFilterVars /\ InitDirVars /\ InitStartVars /\ InitHeroVars /\ InitRest

Init ==
    /\ pc = "loop"
    /\ clock = StartClock
    /\ \E e \in EnvSet :
        /\ cache = e.cache
        /\ official_img_map = e.official
        /\ prev_csv = e.prev
        /\ prev_map = IF e.prev = None THEN EmptyMap ELSE load_previous_prices(e.prev[1])
        /\ args = e.args
    /\ style_code = << >>
    /\ items = << >> /\ best = None /\ top3_items = << >> /\ conf = 0
    /\ InitLocals
    /\ InitCall
    /\ InitExt

Next ==
    \/ SkipRow
    \/ CacheHit
    \/ CacheMiss
    \/ Finish
    \/ Tick

Spec == Init /\ [][Next]_vars

\* ------------------------------------------------------------------------
\* fetch_naver_shop_with_retry, request by request
\* ------------------------------------------------------------------------
notCallVars == <<rowVars, envVars, localVars, outVars, api_calls, exhausted, style_code,
                 extVars>>

\* `time.sleep(base_sleep * (2 ** attempt)); continue`, and line 156 when the
\* range is used up
Retry ==
    /\ backoff' = backoff + Pow2(attempt)
    /\ attempt' = attempt + 1
    /\ fetched' = << >>
    /\ pc' = IF in_range(attempt + 1) THEN "fetch" ELSE "fetched"

\* lines 139-141: the request succeeds
RequestOk ==
    /\ pc = "fetch"
    /\ attempt_result(attempt, OkOutcome) = "items"
    /\ \E resp \in ApiResponses : fetched' = resp
    /\ requests' = requests + 1
    /\ last_outcome' = OkOutcome
    /\ pc' = "fetched"
    /\ UNCHANGED <<attempt, backoff, notCallVars>>

\* lines 143-148: urllib.error.HTTPError
RequestHTTPError ==
    /\ pc = "fetch"
    /\ requests' = requests + 1
    /\ \E code \in HttpCodes :
        /\ last_outcome' = HttpOutcome(code)
        /\ IF attempt_result(attempt, HttpOutcome(code)) = "retry"
           THEN Retry
           ELSE /\ fetched' = << >>
                /\ pc' = "fetched"
                /\ UNCHANGED <<attempt, backoff>>
    /\ UNCHANGED notCallVars

\* lines 150-154: any other exception (timeout, URLError, a payload that is
\* not JSON or not an object)
RequestException ==
    /\ pc = "fetch"
    /\ requests' = requests + 1
    /\ last_outcome' = ExcOutcome
    /\ IF attempt_result(attempt, ExcOutcome) = "retry"
       THEN Retry
       ELSE /\ fetched' = << >>
            /\ pc' = IF attempt_result(attempt, ExcOutcome) = "return"
                     THEN "fetched" ELSE "aborted"
            /\ UNCHANGED <<attempt, backoff>>
    /\ UNCHANGED notCallVars

\* a call of fetch_naver_shop_with_retry(query, ...) begins
InitFetch ==
    /\ pc = "fetch"
    /\ clock = StartClock
    /\ cache = CacheWith(NoFile)
    /\ official_img_map = EmptyMap /\ prev_csv = None /\ prev_map = EmptyMap
    /\ args = ArgsDefault
    /\ style_code \in {CodeA, CodeB}
    /\ items = << >> /\ best = None /\ top3_items = << >> /\ conf = 0
    /\ InitLocals
    /\ InitCall
    /\ InitExt

NextFetch ==
    \/ RequestOk
    \/ RequestHTTPError
    \/ RequestException

SpecFetch == InitFetch /\ [][NextFetch]_vars

\* ------------------------------------------------------------------------
\* The pure functions on drawn inputs
\* ------------------------------------------------------------------------
notPickVars == <<rowVars, envVars, outVars, fetchVars, naver_price, naver_image,
                 official_image, final_image, extVars>>

ApplyPickLowest ==
    /\ pc = "input"
    /\ best' = pick_lowest_item(items)
    /\ pc' = "lowest"
    /\ UNCHANGED <<style_code, items, top3_items, conf, notPickVars>>

ApplyPickTop ==
    /\ pc = "lowest"
    /\ top3_items' = pick_top_n_by_price(items, 3)
    /\ pc' = "top"
    /\ UNCHANGED <<style_code, items, best, conf, notPickVars>>

ApplyConfidence ==
    /\ pc = "top"
    /\ conf' = compute_confidence(style_code, best)
    /\ pc' = "scored"
    /\ UNCHANGED <<style_code, items, best, top3_items, notPickVars>>

InitPick ==
    /\ pc = "input"
    /\ clock = StartClock
    /\ cache = CacheWith(NoFile)
    /\ official_img_map = EmptyMap /\ prev_csv = None /\ prev_map = EmptyMap
    /\ args = ArgsDefault
    /\ style_code \in {CodeA, << >>}
    /\ items \in SeqsUpTo(ItemSet, MaxItems)
    /\ best = None /\ top3_items = << >> /\ conf = 0
    /\ InitLocals
    /\ InitCall
    /\ InitExt

NextPick ==
    \/ ApplyPickLowest
    \/ ApplyPickTop
    \/ ApplyConfidence

SpecPick == InitPick /\ [][NextPick]_vars

\* ------------------------------------------------------------------------
\* filter_items_for_accuracy on drawn inputs, applied to its own result
\* ------------------------------------------------------------------------
ArgsFloor == [min_price |-> Some(2), max_price |-> None,
              exclude_malls |-> {<<"hyeon", "dae">>},
              cache_ttl_hours |-> cache_ttl_default]

FilterArgs == {ArgsDefault, ArgsStrict, ArgsFloor}

notFilterVars == <<rowVars, envVars, localVars, outVars, fetchVars, style_code, dirVars,
                   startVars, heroVars, restVars>>

ApplyFilter ==
    /\ pc = "input"
    /\ filtered' = filter_items_for_accuracy(items, args.min_price, args.max_price,
                                             args.exclude_malls)
    /\ pc' = "filtered"
    /\ UNCHANGED <<refiltered, notFilterVars>>

ApplyFilterAgain ==
    /\ pc = "filtered"
    /\ refiltered' = filter_items_for_accuracy(filtered, args.min_price, args.max_price,
                                               args.exclude_malls)
    /\ pc' = "refiltered"
    /\ UNCHANGED <<filtered, notFilterVars>>

InitFilter ==
    /\ pc = "input"
    /\ clock = StartClock
    /\ cache = CacheWith(NoFile)
    /\ official_img_map = EmptyMap /\ prev_csv = None /\ prev_map = EmptyMap
    /\ args \in FilterArgs
    /\ style_code = << >>
    /\ items \in SeqsUpTo(ItemSet, MaxItems)
    /\ best = None /\ top3_items = << >> /\ conf = 0
    /\ InitLocals
    /\ InitCall
    /\ InitExt

NextFilter ==
    \/ ApplyFilter
    \/ ApplyFilterAgain

SpecFilter == InitFilter /\ [][NextFilter]_vars

\* ------------------------------------------------------------------------
\* find_previous_result_csv.  A directory entry is [name, mtime]: mtime is
\* None when os.path.getmtime raises.  The path returned is written as the
\* file name it joins to history_dir.
\* ------------------------------------------------------------------------
\* str.startswith / str.endswith
StartsWith(s, pre) == Len(s) >= Len(pre) /\ SubSeq(s, 1, Len(pre)) = pre
EndsWith(s, suf) == Len(s) >= Len(suf) /\ SubSeq(s, Len(s) - Len(suf) + 1, Len(s)) = suf

ResultPrefix == <<"r", "e", "s", "u", "l", "t", "_">>
CsvSuffix == <<".", "c", "s", "v">>

\* the regular expression matches the literal lit at position i, ignoring
\* case: the position after it, 0 when it does not match
MatchLiteral(s, i, lit) ==
    IF i > 0 /\ i + Len(lit) - 1 <= Len(s) /\ Lower(SubSeq(s, i, i + Len(lit) - 1)) = lit
    THEN i + Len(lit) ELSE 0

\* (\d{4}) at position i
MatchDigits4(s, i) ==
    IF i > 0 /\ i + 3 <= Len(s) /\ \A k \in i..(i + 3) : s[k] \in Digits
    THEN i + 4 ELSE 0

\* $ at position i: the end of the string, or just before a final newline
MatchEnd(s, i) == i > 0 /\ (i = Len(s) + 1 \/ (i = Len(s) /\ s[i] = "\n"))

\* re.match(r"result_(\d{4})\.csv$", fn, re.IGNORECASE): m.group(1) or None
re_match_result(fn) ==
    LET a == MatchLiteral(fn, 1, ResultPrefix)
        b == MatchDigits4(fn, a)
        c == MatchLiteral(fn, b, CsvSuffix)
    IN  IF MatchEnd(fn, c) THEN Some(SubSeq(fn, a, a + 3)) ELSE None

\* lines 295-310: the (mtime, path) pairs in the order of os.listdir
RECURSIVE CandidatesOf(_, _, _)
CandidatesOf(listing, today, skip_today) ==
    IF listing = << >> THEN << >>
    ELSE LET fn == Head(listing).name
             m == re_match_result(fn)
             rest == CandidatesOf(Tail(listing), today, skip_today)
         IN  IF ~StartsWith(Lower(fn), ResultPrefix) \/ ~EndsWith(Lower(fn), CsvSuffix)
             THEN rest
             ELSE IF m = None THEN rest
             ELSE IF skip_today /\ m[1] = today THEN rest
             ELSE <<[mtime |-> IF Head(listing).mtime = None THEN 0
                               ELSE Head(listing).mtime[1],
                     path |-> fn]>> \o rest

\* candidates.sort(key=lambda x: x[0], reverse=True): stable
RECURSIVE InsertByMtime(_, _)
InsertByMtime(sorted, c) ==
    IF sorted = << >> THEN <<c>>
    ELSE IF c.mtime > Head(sorted).mtime
         THEN <<c>> \o sorted
         ELSE <<Head(sorted)>> \o InsertByMtime(Tail(sorted), c)

RECURSIVE SortByMtime(_, _, _)
SortByMtime(cands, i, acc) ==
    IF i > Len(cands) THEN acc ELSE SortByMtime(cands, i + 1, InsertByMtime(acc, cands[i]))

FirstOfLatest(dir, today, skip_today) ==
    IF ~dir.isdir THEN None
    ELSE LET candidates == CandidatesOf(dir.listing, today, skip_today)
         IN  IF candidates = << >> THEN None
             ELSE Some(SortByMtime(candidates, 1, << >>)[1].path)

find_previous_with_today(dir, today) == FirstOfLatest(dir, today, FALSE)
find_previous_result_csv(dir, today) == FirstOfLatest(dir, today, TRUE)

\* names a history directory may hold
NameOf(tok, upper) ==
    IF upper THEN Upper(ResultPrefix \o tok \o CsvSuffix) ELSE ResultPrefix \o tok \o CsvSuffix
Tok0101 == <<"0", "1", "0", "1">>
Tok0102 == <<"0", "1", "0", "2">>
Tok0103 == <<"0", "1", "0", "3">>
FileNames ==
    { NameOf(Tok0101, FALSE), NameOf(Tok0102, FALSE), NameOf(Tok0103, TRUE),
      NameOf(<<"0", "1", "a", "2">>, FALSE),
      NameOf(Tok0102, FALSE) \o <<".", "b", "a", "k">>,
      <<"x">> \o NameOf(Tok0102, FALSE) }
Mtimes == {None, Some(1), Some(2)}
DirEntries == [name : FileNames, mtime : Mtimes]

\* os.listdir: no name twice
Listings ==
    { l \in SeqsUpTo(DirEntries, MaxFiles) :
        \A i, j \in 1..Len(l) : i # j => l[i].name # l[j].name }

notDirVars == <<rowVars, envVars, localVars, outVars, fetchVars, style_code, filterVars,
                startVars, heroVars, restVars>>

FindPrevious ==
    /\ pc = "input"
    /\ prev_csv_path' = find_previous_result_csv(history_dir, today_mmdd)
    /\ pc' = "found"
    /\ UNCHANGED <<history_dir, today_mmdd, notDirVars>>

InitPrev ==
    /\ pc = "input"
    /\ clock = StartClock
    /\ cache = CacheWith(NoFile)
    /\ official_img_map = EmptyMap /\ prev_csv = None /\ prev_map = EmptyMap
    /\ args = ArgsDefault
    /\ style_code = << >>
    /\ items = << >> /\ best = None /\ top3_items = << >> /\ conf = 0
    /\ InitLocals
    /\ InitCall
    /\ InitFilterVars
    /\ InitStartVars
    /\ InitHeroVars
    /\ InitRest
    /\ \E d \in BOOLEAN, l \in Listings : history_dir = [isdir |-> d, listing |-> l]
    /\ today_mmdd \in {Tok0101, Tok0103}
    /\ prev_csv_path = None

NextPrev == FindPrevious

SpecPrev == InitPrev /\ [][NextPrev]_vars

\* ------------------------------------------------------------------------
\* The start of main (lines 1245-1297) followed by the main loop.
\* input_cfg: input is args.input; explicit_exists and default_exists are
\* os.path.exists of that path and of the default name; globbed is what the
\* glob patterns find, in order, each entry [name, isfile, mtime]; content is
\* what the chosen file holds: "zero_bytes", "header_only" or "rows".
\* ------------------------------------------------------------------------
PathIn == <<"i", "n">>
PathDefault == <<"d", "e", "f">>
PathG1 == <<"g", "1">>
PathG2 == <<"g", "2">>

Globbed(name, isfile, mtime) == [name |-> name, isfile |-> isfile, mtime |-> mtime]

\* candidates.sort(key=getmtime, reverse=True): stable
RECURSIVE InsertByMtimeDesc(_, _)
InsertByMtimeDesc(sorted, c) ==
    IF sorted = << >> THEN <<c>>
    ELSE IF c.mtime > Head(sorted).mtime
         THEN <<c>> \o sorted
         ELSE <<Head(sorted)>> \o InsertByMtimeDesc(Tail(sorted), c)

RECURSIVE SortCandidates(_, _, _)
SortCandidates(cands, i, acc) ==
    IF i > Len(cands) THEN acc
    ELSE SortCandidates(cands, i + 1, InsertByMtimeDesc(acc, cands[i]))

\* [c for c in candidates if os.path.isfile(c)]
RECURSIVE RegularFiles(_)
RegularFiles(cands) ==
    IF cands = << >> THEN << >>
    ELSE IF Head(cands).isfile THEN <<Head(cands)>> \o RegularFiles(Tail(cands))
         ELSE RegularFiles(Tail(cands))

\* pick_input_file(explicit_input): the path, None when it raises SystemExit
pick_input_file(cfg) ==
    IF cfg.input # None /\ cfg.input[1] # << >>
    THEN IF cfg.explicit_exists THEN Some(cfg.input[1]) ELSE None
    ELSE IF cfg.default_exists THEN Some(PathDefault)
    ELSE LET candidates == RegularFiles(cfg.globbed)
         IN  IF candidates = << >> THEN None
             ELSE Some(SortCandidates(candidates, 1, << >>)[1].name)

\* pd.read_csv(input_path): raises pandas.errors.EmptyDataError on a file
\* without any column, with and without the encoding argument
read_csv_raises(content) == content = "zero_bytes"

CredSet == { [id |-> <<"k">>, secret |-> <<" ", "s">>],
             [id |-> << >>, secret |-> <<"s">>],
             [id |-> <<"k">>, secret |-> <<" ">>],
             [id |-> << >>, secret |-> << >>] }

InputSet ==
    { [input |-> Some(PathIn), explicit_exists |-> TRUE, default_exists |-> TRUE,
       globbed |-> << >>, content |-> "rows"],
      [input |-> Some(PathIn), explicit_exists |-> FALSE, default_exists |-> TRUE,
       globbed |-> <<Globbed(PathG1, TRUE, 1)>>, content |-> "rows"],
      [input |-> Some(PathIn), explicit_exists |-> TRUE, default_exists |-> FALSE,
       globbed |-> << >>, content |-> "zero_bytes"],
      [input |-> Some(<< >>), explicit_exists |-> FALSE, default_exists |-> TRUE,
       globbed |-> << >>, content |-> "header_only"],
      [input |-> None, explicit_exists |-> FALSE, default_exists |-> FALSE,
       globbed |-> << >>, content |-> "rows"],
      [input |-> None, explicit_exists |-> FALSE, default_exists |-> FALSE,
       globbed |-> <<Globbed(PathG1, FALSE, 1)>>, content |-> "rows"],
      [input |-> None, explicit_exists |-> FALSE, default_exists |-> FALSE,
       globbed |-> <<Globbed(PathG1, TRUE, 1), Globbed(PathG2, TRUE, 2)>>,
       content |-> "rows"],
      [input |-> None, explicit_exists |-> FALSE, default_exists |-> TRUE,
       globbed |-> <<Globbed(PathG1, TRUE, 1)>>, content |-> "rows"] }

notStartVars == <<row_i, n_candidates, clock, cache, official_img_map, prev_csv, prev_map, args,
                  style_code, official_price, source, localVars, outVars, fetchVars,
                  filterVars, dirVars, heroVars, restVars>>

\* lines 1245-1251
CheckCredentials ==
    /\ pc = "start"
    /\ IF Strip(client_id) = << >> \/ Strip(client_secret) = << >>
       THEN pc' = "exit" /\ exit_info' = SystemExitWith
       ELSE pc' = "creds_ok" /\ UNCHANGED exit_info
    /\ UNCHANGED <<client_id, client_secret, input_cfg, input_path, notStartVars>>

\* lines 1253-1256: build_official_image_map reads a file; pick_input_file
PickInput ==
    /\ pc = "creds_ok"
    /\ input_path' = pick_input_file(input_cfg)
    /\ IF pick_input_file(input_cfg) = None
       THEN pc' = "exit" /\ exit_info' = SystemExitWith
       ELSE pc' = "picked" /\ UNCHANGED exit_info
    /\ UNCHANGED <<client_id, client_secret, input_cfg, notStartVars>>

\* lines 1258-1297: the input is read; lines 1284-1286 read the previous
\* result, which the initial state already holds
LoadInput ==
    /\ pc = "picked"
    /\ IF read_csv_raises(input_cfg.content)
       THEN pc' = "exit" /\ exit_info' = Uncaught("EmptyDataError")
       ELSE IF input_cfg.content = "header_only"
       THEN pc' = "exit" /\ exit_info' = SystemExitWith
       ELSE pc' = "loop" /\ UNCHANGED exit_info
    /\ UNCHANGED <<client_id, client_secret, input_cfg, input_path, notStartVars>>

InitStart ==
    /\ pc = "start"
    /\ clock = StartClock
    /\ cache = CacheWith(File(0, <<I1>>))
    /\ official_img_map = OfficialBoth
    /\ prev_csv = Some(CsvA)
    /\ prev_map = load_previous_prices(CsvA)
    /\ args = ArgsDefault
    /\ style_code = << >>
    /\ items = << >> /\ best = None /\ top3_items = << >> /\ conf = 0
    /\ InitLocals
    /\ InitCall
    /\ InitFilterVars
    /\ InitDirVars
    /\ InitHeroVars
    /\ InitRest
    /\ \E c \in CredSet : client_id = c.id /\ client_secret = c.secret
    /\ input_cfg \in InputSet
    /\ input_path = None
    /\ exit_info = NoExit

NextStart ==
    \/ CheckCredentials
    \/ PickInput
    \/ LoadInput
    \/ SkipRow
    \/ CacheHit
    \/ CacheMiss
    \/ Finish
    \/ Tick

SpecStart == InitStart /\ [][NextStart]_vars

\* ------------------------------------------------------------------------
\* Properties
\* ------------------------------------------------------------------------
\* a step of the main loop that has processed a row with a usable code
CandidateStep == row_i' = row_i + 1 /\ source' # "none"

Min(a, b) == IF a < b THEN a ELSE b

\* C1: a candidate product gets a row exactly when an integer lowest price
\* was obtained and its resolved image (official image, else marketplace
\* image) is not empty; no other step adds a row; every emitted row has a
\* lowest price and a non-empty resolved image.
C1_Step ==
    LET resolved == IF official_image' # << >> THEN official_image' ELSE naver_image'
    IN  IF CandidateStep /\ naver_price' # None /\ resolved # << >>
        THEN /\ Len(results') = Len(results) + 1
             /\ SubSeq(results', 1, Len(results)) = results
             /\ results'[Len(results')].code = style_code'
             /\ results'[Len(results')].naver_price = naver_price'
             /\ results'[Len(results')].final_image = resolved
        ELSE results' = results

C1_RowIffPriceAndImage ==
    /\ [][C1_Step]_vars
    /\ [](\A i \in 1..Len(results) :
            results[i].naver_price # None /\ results[i].final_image # << >>)

C1_Witness ==
    /\ kept = 1 /\ skipped_no_img = 1 /\ Len(results) = 1
    /\ source = "api" /\ naver_price # None /\ final_image = << >>

\* C2: when the official image map has a non-empty entry for the upper-cased
\* code, the resolved image of the row is that entry, whatever images the
\* best item and the top-3 items carry.
C2_OfficialImageWins ==
    /\ (source # "none" /\ pc # "aborted" /\ Upper(style_code) \in DOMAIN official_img_map
            /\ official_img_map[Upper(style_code)] # << >>)
        => final_image = official_img_map[Upper(style_code)]
    /\ \A i \in 1..Len(results) :
        (Upper(results[i].code) \in DOMAIN official_img_map
            /\ official_img_map[Upper(results[i].code)] # << >>)
        => results[i].final_image = official_img_map[Upper(results[i].code)]

C2_Witness ==
    \E i \in 1..Len(results) :
        /\ results[i].code = CodeB
        /\ results[i].final_image = ImgO2
        /\ results[i].naver_image # << >>
        /\ results[i].naver_image # results[i].final_image

\* C3: in every emitted row delta_naver is the current lowest price minus the
\* previous price when the previous-snapshot map holds an integer for the
\* row's code, and absent (None, not 0) when there is no previous file, the
\* code is not in the map or the map holds no integer for it.
C3_Delta ==
    \A i \in 1..Len(results) :
        LET r == results[i]
        IN  IF prev_csv # None /\ r.code \in DOMAIN prev_map /\ prev_map[r.code] # None
            THEN r.delta_naver = Some(r.naver_price[1] - prev_map[r.code][1])
            ELSE r.delta_naver = None

C3_Witness ==
    /\ prev_csv = Some(CsvA)
    /\ \E i, j \in 1..Len(results) :
        /\ results[i].code = CodeA /\ results[i].delta_naver # None
        /\ results[j].code = CodeB /\ results[j].delta_naver = None

\* C4, as claimed: the confidence is in [0, 4] and is 0 if and only if no
\* best item exists.
C4_Original ==
    pc = "scored" => (conf \in 0..4 /\ (conf = 0 <=> best = None))

NoSignal(code, it) ==
    LET title == Lower(strip_html_tags(it.title))
    IN  /\ ~(Lower(code) # << >> /\ Contains(Lower(code), title))
        /\ ~Contains(BrandEn, title) /\ ~Contains(BrandKo, title)
        /\ \A t \in trust_mall_terms : ~Contains(t, Lower(it.mallName))

\* C4, amended: the confidence is in [0, 4]; it is 0 when no best item
\* exists, and with a best item it is 0 exactly when the item matches none of
\* the three signals.
C4_ConfidenceRange ==
    pc = "scored" =>
        /\ conf \in 0..4
        /\ best = None => conf = 0
        /\ best # None => (conf = 0 <=> NoSignal(style_code, best[1]))

C4_Witness == pc = "scored" /\ best # None /\ conf = 0 /\ style_code = CodeA

\* C5: the cached list is used, without an API call, only if the cache file
\* of the sanitized code exists and is at most ttl_hours old; in every other
\* case the API is called and the file is overwritten with the fresh result,
\* its timestamp being the current time.
C5_Step ==
    CandidateStep =>
        LET f == cache[cache_path(style_code')]
            fresh == f.exists /\ clock - f.mtime <= args.cache_ttl_hours
        IN  /\ source' = "cache" =>
                /\ fresh
                /\ api_calls' = api_calls
                /\ cache' = cache
            /\ ~fresh =>
                /\ source' = "api"
                /\ api_calls' = api_calls + 1
                /\ cache'[cache_path(style_code')] =
                       [exists |-> TRUE, mtime |-> clock, valid |-> TRUE, items |-> fetched']

C6_Original == requests <= 4

\* C6, amended: one call issues at most 5 HTTP requests (the first attempt
\* and max_retries = 4 retries), whatever the failures, and has returned
\* once the fifth request has been answered.
C6_RequestBound ==
    /\ requests <= 5
    /\ pc = "fetch" => requests = attempt /\ attempt <= 4
    /\ requests = 5 => pc = "fetched"

C6_Witness == pc = "fetched" /\ requests = 5 /\ fetched = << >>

\* C7: a request that fails with a 4xx status other than 429 ends the call at
\* once with an empty list and without a backoff sleep (one request and no
\* sleep at all when it is the first request); a further request is made
\* only after HTTP 429, HTTP 5xx or a non-HTTP exception.
C7_Step ==
    /\ (last_outcome'.kind = "http" /\ last_outcome'.code \in 400..499
            /\ last_outcome'.code # 429)
        => /\ pc' = "fetched" /\ fetched' = << >>
           /\ backoff' = backoff /\ attempt' = attempt
           /\ requests = 0 => (requests' = 1 /\ backoff' = 0)
    /\ pc' = "fetch"
        => \/ last_outcome'.kind = "exc"
           \/ /\ last_outcome'.kind = "http"
              /\ (last_outcome'.code = 429 \/ last_outcome'.code \in 500..599)

C8_Step ==
    (source' = "api" /\ api_calls' = api_calls + 1)
        => /\ pc' = "loop" /\ row_i' = row_i + 1
           /\ (last_outcome'.kind \in {"http", "exc"} \/ exhausted') => fetched' = << >>

LeastIndex(its) ==
    CHOOSE i \in 1..Len(its) :
        /\ \A j \in 1..Len(its) : lp_key(its[i]) <= lp_key(its[j])
        /\ \A j \in 1..(i - 1) : lp_key(its[j]) > lp_key(its[i])

\* C9: for a non-empty item list pick_lowest_item returns an item of the list
\* whose price is at most the price of every item, and among the items of
\* least price the first in input order.
C9_PickLowest ==
    (pc \in {"lowest", "top", "scored"} /\ items # << >>) =>
        /\ best # None
        /\ \E i \in 1..Len(items) : best[1] = items[i]
        /\ \A j \in 1..Len(items) : lp_key(best[1]) <= lp_key(items[j])
        /\ best[1] = items[LeastIndex(items)]

C9_Witness ==
    /\ pc = "lowest" /\ Len(items) >= 3
    /\ \E i, j \in 1..Len(items) :
        /\ i < j /\ items[i] # items[j]
        /\ lp_key(items[i]) = lp_key(items[j])
        /\ \A k \in 1..Len(items) : lp_key(items[i]) <= lp_key(items[k])
        /\ \A k \in 1..(i - 1) : lp_key(items[k]) > lp_key(items[i])
        /\ i > 1
        /\ best = Some(items[i])

\* index i comes before index j in the stable ascending sort by price
Before(its, i, j) ==
    lp_key(its[i]) < lp_key(its[j]) \/ (lp_key(its[i]) = lp_key(its[j]) /\ i < j)

\* the index of the item at place a of the stable ascending sort
Ranked(its, a) ==
    CHOOSE i \in 1..Len(its) :
        Cardinality({ j \in 1..Len(its) : Before(its, j, i) }) = a - 1

\* C10: pick_top_n_by_price(items, 3) is the first min(3, len(items)) items
\* of the stable ascending sort by price (ties in input order), the empty
\* list for an empty list.
C10_TopThree ==
    pc \in {"top", "scored"} =>
        /\ Len(top3_items) = Min(3, Len(items))
        /\ \A a \in 1..Len(top3_items) : top3_items[a] = items[Ranked(items, a)]

C10_Witness ==
    /\ pc = "top" /\ Len(items) = 4 /\ Len(top3_items) = 3
    /\ lp_key(top3_items[2]) = lp_key(top3_items[3])
    /\ top3_items[2] # top3_items[3]
    /\ lp_key(items[1]) > lp_key(top3_items[3])

\* C11: filtering an already filtered list with the same min_price, max_price
\* and exclude_malls gives the same items in the same order
C11_FilterIdempotent == pc = "refiltered" => refiltered = filtered

\* a filter that dropped some items and kept more than one has been re-applied
C11_Witness ==
    /\ pc = "refiltered"
    /\ Len(filtered) > 1
    /\ Len(filtered) < Len(items)

\* the entries of the history directory named result_<4 digits>.csv (in any
\* letter case) whose token is not today's
DatedOthers ==
    { e \in { history_dir.listing[i] : i \in 1..Len(history_dir.listing) } :
        /\ Len(e.name) = 15
        /\ Lower(e.name) = ResultPrefix \o SubSeq(e.name, 8, 11) \o CsvSuffix
        /\ \A k \in 8..11 : e.name[k] \in Digits
        /\ SubSeq(e.name, 8, 11) # today_mmdd }

MtimeOrZero(e) == IF e.mtime = None THEN 0 ELSE e.mtime[1]

\* C12: find_previous_result_csv returns None when the history directory holds
\* no result_<4 digits>.csv of another day, and otherwise one of these files
\* whose modification time no other of them exceeds; never today's file
C12_PreviousByMtime ==
    pc = "found" =>
        IF history_dir.isdir /\ DatedOthers # {}
        THEN /\ prev_csv_path # None
             /\ \E e \in DatedOthers :
                    /\ e.name = prev_csv_path[1]
                    /\ \A o \in DatedOthers : MtimeOrZero(o) <= MtimeOrZero(e)
             /\ SubSeq(prev_csv_path[1], 8, 11) # today_mmdd
        ELSE prev_csv_path = None

\* result_0101.csv (modified at 2, the latest) is chosen over result_0102.csv
\* (modified at 1) while today's file result_0103.csv (any case) is there too
C12_Witness ==
    /\ pc = "found"
    /\ today_mmdd = Tok0103
    /\ prev_csv_path = Some(NameOf(Tok0101, FALSE))
    /\ \E i, j \in 1..Len(history_dir.listing) :
        /\ history_dir.listing[i] = [name |-> NameOf(Tok0102, FALSE), mtime |-> Some(1)]
        /\ history_dir.listing[j] = [name |-> NameOf(Tok0103, TRUE), mtime |-> Some(2)]

\* either credential is missing or blank
CredentialMissing ==
    \/ \A i \in 1..Len(client_id) : client_id[i] \in Whitespace
    \/ \A i \in 1..Len(client_secret) : client_secret[i] \in Whitespace

\* --input names a file that is not there, or no --input is given and
\* neither the default file nor a regular file matching a pattern is there
InputMissing ==
    IF input_cfg.input # None /\ input_cfg.input[1] # << >>
    THEN ~input_cfg.explicit_exists
    ELSE /\ ~input_cfg.default_exists
         /\ \A i \in 1..Len(input_cfg.globbed) : ~input_cfg.globbed[i].isfile

\* the input file holds no row: no byte at all, or a header line only
InputEmpty == ~InputMissing /\ input_cfg.content \in {"zero_bytes", "header_only"}

NoWorkDone == api_calls = 0 /\ cache_writes = 0 /\ written = {}

\* C15 as stated: with a missing or blank credential, or a missing or empty
\* input file, the run never gets past its start, has done no API call, cache
\* write or output, and when it has ended it has ended by SystemExit with a
\* non-zero status
C15_Original ==
    (pc # "start" /\ (CredentialMissing \/ InputMissing \/ InputEmpty)) =>
        /\ pc \in {"creds_ok", "picked", "exit"}
        /\ NoWorkDone
        /\ pc = "exit" => exit_info.kind = "SystemExit" /\ exit_info.status # 0

\* the work a run does: API calls, cache writes and outputs only after its start
StartBeforeWork == pc \in {"start", "creds_ok", "picked", "exit"} => NoWorkDone

\* a step with a lowest price but no image from any source
NoImageStep ==
    /\ row_i' = row_i + 1 /\ source' # "none"
    /\ naver_price' # None
    /\ \A i \in 1..Len(final_image') : final_image'[i] \in Whitespace

C16_Step ==
    /\ Len(results') \in {Len(results), Len(results) + 1}
    /\ n_candidates' - Len(results') >= n_candidates - Len(results)
    /\ NoImageStep =>
            /\ n_candidates' = n_candidates + 1
            /\ Len(results') = Len(results)
            /\ skipped_no_img' = skipped_no_img + 1

\* C16: a row of the input adds at most one output row; throughout the main
\* loop, and so at its end, kept + skipped_no_price + skipped_no_img is the
\* number of rows consumed that hold a code and the output has kept rows; a
\* product with a price and no image raises the candidate count and leaves
\* the output as it was
C16_Counts ==
    /\ [][C16_Step]_vars
    /\ [](/\ kept + skipped_no_price + skipped_no_img = n_candidates
          /\ Len(results) = kept)

\* the loop has ended after a row without a code and a product with a price
\* and no image
C16_Witness ==
    /\ pc = "done"
    /\ row_i = 2 /\ n_candidates = 1
    /\ skipped_no_img = 1 /\ results = << >>

\* C17, as claimed: in every emitted row with an integer official price the
\* price difference is the official price minus the lowest price, and it is
\* absent only in the rows without an official price
C17_Original ==
    \A i \in 1..Len(results) :
        IF results[i].official_price # None
        THEN results[i].diff
                = Some(results[i].official_price[1] - results[i].naver_price[1])
        ELSE results[i].diff = None

\* C17: in every emitted row with an integer official price and a lowest
\* price above 0 the price difference is the official price minus the lowest
\* price; it is absent in the rows without an official price and in the rows
\* whose lowest price is 0
C17_Diff ==
    \A i \in 1..Len(results) :
        IF results[i].official_price # None /\ results[i].naver_price[1] > 0
        THEN results[i].diff
                = Some(results[i].official_price[1] - results[i].naver_price[1])
        ELSE results[i].diff = None

\* one row with official price 3 and lowest price 0, one without an
\* official price
C17_Witness ==
    \E i, j \in 1..Len(results) :
        /\ results[i].official_price = Some(3) /\ results[i].naver_price = Some(0)
        /\ results[i].diff = None
        /\ results[j].official_price = None /\ results[j].naver_price = Some(2)

\* a row with official price 3 and lowest price 2 carries the difference 1
C17_Present ==
    \E i \in 1..Len(results) :
        /\ results[i].official_price = Some(3) /\ results[i].naver_price = Some(2)
        /\ results[i].diff = Some(1)

\* ------------------------------------------------------------------------
\* SpecHero: main of the banner collector, brand by brand
\* ------------------------------------------------------------------------
notHeroVars == <<row_i, n_candidates, clock, cache, official_img_map, prev_csv, prev_map, args,
                 style_code, official_price, source, localVars, outVars, fetchVars,
                 filterVars, dirVars, startVars, restVars>>

SysExit(code) == [kind |-> "SystemExit", status |-> code]

\* the brand the loop is at
CurBrand == RunBrands[brand_i + 1]

NoBanners == [out |-> << >>, cache |-> IMG_URL_CACHE, dl |-> dl_count]

\* what the extractor of the current brand can come to on the pages `pages`,
\* whatever the downloads do
Extractions(pages) ==
    { extract(CurBrand, els, net, NoBanners) : els \in pages, net \in [Urls -> DownloadOutcomes] }

\* lines 1547-1558: new_page and crawl_brand return, the extractor's banners
\* are added to brand_rows
CrawlOk ==
    /\ pc = "crawl" /\ browser_open
    /\ \E r \in Extractions(Pages) :
          /\ brand_rows' = brand_rows \o r.out
          /\ IMG_URL_CACHE' = r.cache
          /\ dl_count' = r.dl
    /\ brand_attempt' = brand_attempt + 1
    /\ brand_ok' = TRUE
    /\ pc' = "brand_done"
    /\ last_error' = None
    /\ UNCHANGED <<brand_i, all_rows, browser_open, processed, hero_files, hero_exit, prog_fail,
                   notHeroVars>>

\* crawl_brand lines 1484-1493: page.goto raises, crawl_brand returns [];
\* the browser may be what failed
CrawlGotoFails ==
    /\ pc = "crawl" /\ browser_open
    /\ browser_open' \in BOOLEAN
    /\ brand_attempt' = brand_attempt + 1
    /\ brand_ok' = TRUE
    /\ pc' = "brand_done"
    /\ last_error' = None
    /\ UNCHANGED <<brand_i, brand_rows, all_rows, IMG_URL_CACHE, dl_count, processed,
                   hero_files, hero_exit, prog_fail, notHeroVars>>

\* lines 1560-1577: new_page or the extractor raises after the elements `seen`;
\* a closed-browser message has the browser launched again
CrawlRaises ==
    /\ pc = "crawl"
    /\ \E r \in Extractions(IF browser_open THEN PagesInPart ELSE {<< >>}) :
          \E e \in Errors :
              /\ ~browser_open => e.browser_gone
              /\ IMG_URL_CACHE' = r.cache /\ dl_count' = r.dl
              /\ browser_open' = browser_after_error(browser_open, e)
              /\ last_error' = Some(e)
    /\ brand_attempt' = brand_attempt + 1
    /\ LET then == on_brand_error(brand_attempt + 1)
       IN  /\ pc' = CASE then = "retry" -> "crawl"
                      [] then = "give_up" -> "brand_done"
                      [] OTHER -> "ended"
           /\ hero_exit' = IF then = "raise" THEN Uncaught("Error") ELSE hero_exit
    /\ UNCHANGED <<brand_i, brand_ok, brand_rows, all_rows, processed, hero_files, prog_fail,
                   notHeroVars>>

\* lines 1579-1590: dedupe, rows.extend, the next brand
FinishBrand ==
    /\ pc = "brand_done"
    /\ all_rows' = all_rows \o dedupe_brand_rows(brand_rows)
    /\ processed' = Append(processed, CurBrand.key)
    /\ brand_i' = brand_i + 1
    /\ brand_attempt' = 0 /\ brand_ok' = FALSE /\ brand_rows' = << >>
    /\ pc' = IF brand_i + 1 < Len(RunBrands) THEN "crawl" ELSE "output"
    /\ prog_fail' = IF brand_ok THEN prog_fail ELSE prog_fail + 1
    /\ last_error' = None
    /\ UNCHANGED <<browser_open, IMG_URL_CACHE, dl_count, hero_files, hero_exit, notHeroVars>>

\* lines 1592-1606: the three files are written in order; `failing` are the
\* writes that raise
WriteOutputs ==
    /\ pc = "output"
    /\ \E failing \in SUBSET AllOutFiles :
          LET raised == write_error_propagates /\ failing # {}
          IN  /\ hero_files' = IF write_error_propagates
                               THEN WrittenUntilFailure(1, failing)
                               ELSE AllOutFiles \ failing
              /\ pc' = IF raised THEN "ended" ELSE "check_html"
              /\ hero_exit' = IF raised THEN Uncaught("OSError") ELSE hero_exit
    /\ browser_open' = FALSE
    /\ UNCHANGED <<brand_i, brand_attempt, brand_ok, brand_rows, all_rows, IMG_URL_CACHE,
                   dl_count, processed, last_error, prog_fail, notHeroVars>>

\* lines 1608-1613
ExitHero ==
    /\ pc = "check_html"
    /\ hero_exit' = SysExit(exit_status(hero_files))
    /\ pc' = "ended"
    /\ UNCHANGED <<brand_i, brand_attempt, brand_ok, brand_rows, all_rows, browser_open,
                   IMG_URL_CACHE, dl_count, processed, hero_files, last_error, prog_fail,
                   notHeroVars>>

InitHero ==
    /\ pc = "crawl"
    /\ clock = StartClock
    /\ cache = CacheWith(NoFile)
    /\ official_img_map = EmptyMap /\ prev_csv = None /\ prev_map = EmptyMap
    /\ args = ArgsDefault
    /\ style_code = << >>
    /\ items = << >> /\ best = None /\ top3_items = << >> /\ conf = 0
    /\ InitLocals
    /\ InitCall
    /\ InitExt

NextHero ==
    \/ CrawlGotoFails
    \/ CrawlOk
    \/ CrawlRaises
    \/ FinishBrand
    \/ WriteOutputs
    \/ ExitHero

SpecHero == InitHero /\ [][NextHero]_vars

\* every step main can take is eventually taken: the run does not stop
\* halfway by itself
SpecHeroLive == SpecHero /\ WF_vars(NextHero)

HeroTypeOK ==
    /\ brand_i \in 0..Len(RunBrands)
    /\ brand_attempt \in 0..2
    /\ Len(processed) = brand_i

BrandKeys == [i \in 1..Len(RunBrands) |-> RunBrands[i].key]
OutputStages == {"output", "check_html", "ended"}

C14_ExitCode ==
    pc = "ended" => (hero_exit.status = 0 <=> hero_files = AllOutFiles)

\* the snapshot was written, the write of the report CSV raised
C14_Witness ==
    /\ pc = "ended"
    /\ hero_files = {"today_snap"}
    /\ hero_exit.status = 1

\* the run that wrote everything ends with sys.exit(0)
C14_Success ==
    /\ pc = "ended"
    /\ hero_files = AllOutFiles
    /\ hero_exit = SysExit(0)

\* C18: within one run no image URL is downloaded more than once.
C18_Original == \A u \in Urls : dl_count[u] <= 1

\* what the URL cache does give: a URL that was saved is answered from the
\* cache from then on, with the file name of the first save
C18_SavedOnce ==
    [][\A u \in Urls : IMG_URL_CACHE[u] # None =>
            /\ IMG_URL_CACHE'[u] = IMG_URL_CACHE[u]
            /\ dl_count'[u] = dl_count[u]]_vars

\* C19: in the output no two banners of one brand have the same non-empty
\* image URL.
C19_Original ==
    \A i, j \in 1..Len(all_rows) :
        (i # j /\ all_rows[i].brand_key = all_rows[j].brand_key
               /\ all_rows[i].img_url # << >>)
            => all_rows[i].img_url # all_rows[j].img_url

\* what dedupe_brand_rows does give: no two banners of one brand have the
\* same non-empty normalised link
C19_DistinctLinks ==
    \A i, j \in 1..Len(all_rows) :
        (i # j /\ all_rows[i].brand_key = all_rows[j].brand_key
               /\ all_rows[i].href_clean # NoHref)
            => all_rows[i].href_clean # all_rows[j].href_clean

BannersSoFar == {brand_rows[i] : i \in 1..Len(brand_rows)} \cup {all_rows[i] : i \in 1..Len(all_rows)}

\* C20: a banner has img_status "ok" exactly when it has a local image;
\* without one the status is "no_url" when it has no image URL and
\* "download_fail" when it has one; "cached" is never the status of a banner.
C20_ImgStatus ==
    \A b \in BannersSoFar :
        /\ b.img_status = "ok" <=> b.img_local # None
        /\ b.img_local = None =>
              b.img_status = IF b.img_url = << >> THEN "no_url" ELSE "download_fail"
        /\ b.img_status # "cached"

\* a banner whose image came from the URL cache (the file was saved for
\* another brand), one without image URL and one whose download failed
C20_Witness ==
    /\ \E b \in BannersSoFar :
          b.img_local # None /\ b.img_local[1].brand_key # b.brand_key /\ b.img_status = "ok"
    /\ \E b \in BannersSoFar : b.img_status = "no_url"
    /\ \E b \in BannersSoFar : b.img_status = "download_fail"

\* a step of the handler of the brand loop: an attempt that raised
AttemptRaised == pc = "crawl" /\ brand_attempt' = brand_attempt + 1 /\ last_error' # None

\* the brand loop finishes a brand whose attempts both raised
FailedBrandStep == pc = "brand_done" /\ ~brand_ok /\ brand_i' = brand_i + 1

C21_Step ==
    \* a second attempt starts only out of the handler, after the first raised
    /\ (pc' = "crawl" /\ brand_attempt' = 1) => (AttemptRaised /\ brand_attempt = 0)
    \* a brand whose second attempt raised adds no row, is counted as failed,
    \* and the loop is at the next brand
    /\ FailedBrandStep =>
          /\ brand_attempt = 2 /\ brand_rows = << >>
          /\ all_rows' = all_rows
          /\ prog_fail' = prog_fail + 1
          /\ pc' = IF brand_i' < Len(RunBrands) THEN "crawl" ELSE "output"
    /\ (pc = "brand_done" /\ brand_ok) => prog_fail' = prog_fail

notDedupeVars == <<row_i, n_candidates, clock, cache, official_img_map, prev_csv, prev_map, args,
                   style_code, official_price, source, localVars, outVars, fetchVars,
                   filterVars, dirVars, startVars, heroVars, forumVars, dashVars>>

NotSaved == [img_local |-> None, status |-> "download_fail", cache |-> EmptyCache,
             downloaded |-> TRUE]

\* the banners an extractor can have built: href_clean and img_status as the
\* extractors set them
BannerSet ==
    { Banner("tnf", rank, href, img_url, NotSaved) :
        rank \in 1..2, href \in {NoHref, H1, H1Tracked, H2}, img_url \in {<< >>, U1} }

ApplyDedupe ==
    /\ pc = "banners"
    /\ dedupe_out' = dedupe_brand_rows(dedupe_in)
    /\ pc' = "deduped"
    /\ UNCHANGED <<dedupe_in, dedupe_again, notDedupeVars>>

ApplyDedupeAgain ==
    /\ pc = "deduped"
    /\ dedupe_again' = dedupe_brand_rows(dedupe_out)
    /\ pc' = "deduped_again"
    /\ UNCHANGED <<dedupe_in, dedupe_out, notDedupeVars>>

InitDedupe ==
    /\ pc = "banners"
    /\ clock = StartClock
    /\ cache = CacheWith(NoFile)
    /\ official_img_map = EmptyMap /\ prev_csv = None /\ prev_map = EmptyMap
    /\ args = ArgsDefault
    /\ style_code = << >>
    /\ items = << >> /\ best = None /\ top3_items = << >> /\ conf = 0
    /\ InitLocals
    /\ InitCall
    /\ InitFilterVars /\ InitDirVars /\ InitStartVars /\ InitHeroVars
    /\ dedupe_in \in SeqsUpTo(BannerSet, MaxBanners)
    /\ dedupe_out = << >> /\ dedupe_again = << >>
    /\ InitForumVars /\ InitDashVars

NextDedupe ==
    \/ ApplyDedupe
    \/ ApplyDedupeAgain

SpecDedupe == InitDedupe /\ [][NextDedupe]_vars

\* the banner but for its rank
Unranked(b) == [b EXCEPT !.rank = 0]

\* C24: the output of dedupe_brand_rows holds no two banners with the same
\* non-empty normalised href; the banner kept for such a href is one of lowest
\* rank among the banners of the input with that href; dedupe_brand_rows
\* applied to its own output returns it unchanged.
C24_DedupeByHref ==
    /\ pc \in {"deduped", "deduped_again"} =>
          /\ \A i, j \in 1..Len(dedupe_out) :
                (i # j /\ normalize_href(dedupe_out[i].href) # NoHref)
                    => normalize_href(dedupe_out[i].href) # normalize_href(dedupe_out[j].href)
          /\ \A i \in 1..Len(dedupe_out) :
                normalize_href(dedupe_out[i].href) # NoHref =>
                    \E k \in 1..Len(dedupe_in) :
                        /\ Unranked(dedupe_in[k]) = Unranked(dedupe_out[i])
                        /\ \A m \in 1..Len(dedupe_in) :
                              normalize_href(dedupe_in[m].href) = normalize_href(dedupe_in[k].href)
                                  => dedupe_in[k].rank <= dedupe_in[m].rank
    /\ pc = "deduped_again" => dedupe_again = dedupe_out

\* two links to one campaign, the tracked one with the lower rank and later
\* in the list, and a third banner: the tracked link is kept, first
C24_Witness ==
    /\ pc = "deduped_again"
    /\ Len(dedupe_in) = 3
    /\ dedupe_in[1].href = H1 /\ dedupe_in[1].rank = 2
    /\ dedupe_in[2].href = H1Tracked /\ dedupe_in[2].rank = 1
    /\ dedupe_in[3].href = H2 /\ dedupe_in[3].rank = 2 /\ dedupe_in[3].img_url = U1
    /\ Len(dedupe_out) = 2
    /\ dedupe_out[1].href = H1Tracked

RECURSIVE RowsOf(_, _)
\* the banners of one brand in a list, in the order of the list
RowsOf(bs, key) ==
    IF bs = << >> THEN << >>
    ELSE IF Head(bs).brand_key = key
         THEN <<Head(bs)>> \o RowsOf(Tail(bs), key)
         ELSE RowsOf(Tail(bs), key)

\* `chosen` is a selection of `all` in the order of the extractor's ranks
SameOrder(chosen, all) ==
    \E f \in [1..Len(chosen) -> 1..Len(all)] :
        /\ \A i \in 1..Len(chosen) : Unranked(all[f[i]]) = Unranked(chosen[i])
        /\ \A i, j \in 1..Len(chosen) : i < j => all[f[i]].rank < all[f[j]].rank

C30_Rows ==
    \A n \in 1..Len(RunBrands) :
        LET mine == RowsOf(all_rows, RunBrands[n].key)
        IN  /\ Len(mine) <= RunBrands[n].mx
            /\ \A i \in 1..Len(mine) :
                  /\ mine[i].href # NoHref \/ mine[i].img_url # << >>
                  /\ mine[i].rank = i

C30_Step ==
    pc = "brand_done" =>
        \E added \in SeqsUpTo({brand_rows[i] : i \in 1..Len(brand_rows)}, Len(brand_rows)) :
            LET renumbered == [i \in 1..Len(added) |-> [added[i] EXCEPT !.rank = i]]
            IN  /\ all_rows' = all_rows \o renumbered
                /\ SameOrder(renumbered, brand_rows)

WithImageAt(its) == {i \in 1..Len(its) : Strip(its[i].image) # << >>}

\* the marketplace image the claim describes
MarketImage(b, t3) ==
    IF b # None /\ Strip(b[1].image) # << >> THEN Strip(b[1].image)
    ELSE IF WithImageAt(t3) = {} THEN << >>
    ELSE Strip(t3[CHOOSE i \in WithImageAt(t3) : \A j \in WithImageAt(t3) : i <= j].image)

C22_Step ==
    Len(results') > Len(results) =>
        LET r == results'[Len(results')]
        IN  /\ r.naver_image = naver_image'
            /\ r.official_image = official_image'
            /\ r.final_image = final_image'

\* C22: the marketplace image of a product is the image of the best item when
\* that is not blank, else the image of the first item of the top-3 list, in
\* rank order, whose image is not blank, else empty; without official image
\* it is the resolved image; a row holds the official, the marketplace and
\* the resolved image.
C22_MarketImage ==
    /\ []((source # "none" /\ pc # "aborted") =>
            /\ naver_image = MarketImage(best, top3_items)
            /\ official_image = << >> => final_image = naver_image)
    /\ [](\A i \in 1..Len(results) :
            results[i].official_image = << >> =>
                results[i].final_image = results[i].naver_image)
    /\ [][C22_Step]_vars

\* a row without official image whose best item has no image: the image is
\* the one of the second item of the top-3 list
C22_Witness ==
    /\ source # "none" /\ pc # "aborted"
    /\ best # None /\ Strip(best[1].image) = << >>
    /\ Len(top3_items) >= 2 /\ top3_items[1] = best[1]
    /\ naver_image = top3_items[2].image /\ naver_image # << >>
    /\ results # << >>
    /\ results[Len(results)].official_image = << >>
    /\ results[Len(results)].naver_image = naver_image
    /\ results[Len(results)].final_image = naver_image

\* the row just processed was answered from the cache
ServedFromCache == source = "cache" /\ pc # "aborted"

\* C25: the item list of a failed fetch is never served as a cache hit.
C25_Original == ~(ServedFromCache /\ cache_path(style_code) \in failed_saved)

\* what main does instead: every fetch that returns, failed or not, is saved
\* and is served while the file is within the TTL
C25_FailureCached ==
    [][(source' = "api" /\ pc' = "loop" /\ row_i' = row_i + 1) =>
            /\ cache'[cache_path(style_code')] = File(clock, fetched')
            /\ load_cache(cache', style_code', args.cache_ttl_hours, clock) = Some(fetched')]_vars

\* the prices of a list whose lprice is a string of decimal digits
DigitPrices(its) == { its[i].lprice.val : i \in {j \in 1..Len(its) : its[j].lprice.kind = "digits"} }

LeastOf(S) == CHOOSE n \in S : \A m \in S : n <= m

\* the locals are those of a row that was looked up and processed
RowProcessed == source # "none" /\ pc # "aborted"

\* C26: when the filtered list holds an item whose lprice is a string of
\* digits, the lowest price of the product is present and is the least of
\* those prices.
C26_Original ==
    (RowProcessed /\ DigitPrices(items) # {}) =>
        /\ naver_price # None
        /\ naver_price[1] = LeastOf(DigitPrices(items))

\* what holds instead: the claim's conclusion when no lprice that int()
\* accepts without being a string of digits (a sign, padding) is in the list
C26_DigitsOrJunk ==
    (RowProcessed /\ DigitPrices(items) # {}
        /\ \A i \in 1..Len(items) : items[i].lprice.kind # "signed") =>
        /\ naver_price # None
        /\ naver_price[1] = LeastOf(DigitPrices(items))

\* C29: for a non-empty list the item pick_lowest_item returns is the first
\* element of pick_top_n_by_price(items, 3): the same element of the list,
\* also when prices tie and when some lprice does not parse.
C29_BestIsFirstOfTop ==
    (pc \in {"top", "scored"} /\ items # << >>) =>
        /\ best # None /\ top3_items # << >>
        /\ best[1] = top3_items[1]
        /\ best[1] = items[LeastIndex(items)]
        /\ top3_items[1] = items[Ranked(items, 1)]
        /\ LeastIndex(items) = Ranked(items, 1)

\* an item whose lprice does not parse comes first, two different items tie
\* at the least price
C29_Witness ==
    /\ pc = "top" /\ Len(items) = 3
    /\ ~IntParses(items[1].lprice)
    /\ items[2] # items[3]
    /\ lp_key(items[2]) = lp_key(items[3])
    /\ best = Some(items[2])
    /\ top3_items[1] = items[2]

\* ------------------------------------------------------------------------
\* SpecForum: crawl_dc_engine, list page by list page.  Days are numbered;
\* Today is datetime.now(KST).date()
\* ------------------------------------------------------------------------
notForumVars == <<row_i, n_candidates, clock, cache, official_img_map, prev_csv, prev_map, args,
                  style_code, official_price, source, localVars, outVars, fetchVars,
                  filterVars, dirVars, startVars, heroVars, dedupeVars, dashVars>>

MAX_PAGES == 50

Today == MaxAge + 1

\* line 42
start_date(today, days) == today - days

\* a row of a list page: a notice or a row without number or link ("notice"),
\* a post whose page fails, has no date or a date that does not parse
\* ("broken"), a post created on day `day`
NoticeRow == [kind |-> "notice", day |-> 0]
BrokenRow == [kind |-> "broken", day |-> 0]
PostRow(day) == [kind |-> "post", day |-> day]

RowsOfBoard == {NoticeRow, BrokenRow} \cup { PostRow(d) : d \in (Today - MaxAge)..Today }

\* the list pages the board can answer with
ListPages == SeqsUpTo(RowsOfBoard, 2)

\* lines 64-110: the rows of one list page; acc is [posts, stop]
RECURSIVE CollectRows(_, _, _)
CollectRows(rows, since, acc) ==
    IF rows = << >> THEN acc
    ELSE LET row == Head(rows)
         IN  IF row.kind # "post" THEN CollectRows(Tail(rows), since, acc)
             ELSE IF row.day < since THEN [acc EXCEPT !.stop = TRUE]
             ELSE CollectRows(Tail(rows), since, [acc EXCEPT !.posts = @ \cup {row.day}])

\* lines 48-62 and 112: the next list page is requested and answers
ListPageOk ==
    /\ pc = "paging" /\ ~forum_stop /\ forum_pages < MAX_PAGES
    /\ \E rows \in ListPages :
          LET acc == CollectRows(rows, start_date(Today, forum_days),
                                 [posts |-> forum_posts, stop |-> FALSE])
          IN  forum_posts' = acc.posts /\ forum_stop' = acc.stop
    /\ forum_pages' = forum_pages + 1
    /\ UNCHANGED <<pc, forum_days, notForumVars>>

\* lines 53-59: the request raises or the status is not 200
ListPageFails ==
    /\ pc = "paging" /\ ~forum_stop /\ forum_pages < MAX_PAGES
    /\ forum_pages' = forum_pages + 1
    /\ pc' = "returned"
    /\ UNCHANGED <<forum_days, forum_posts, forum_stop, notForumVars>>

\* lines 48-50 and 114: stop_signal is set or the pages are used up
ReturnPosts ==
    /\ pc = "paging" /\ (forum_stop \/ forum_pages = MAX_PAGES)
    /\ pc' = "returned"
    /\ UNCHANGED <<forumVars, notForumVars>>

InitForum ==
    /\ pc = "paging"
    /\ clock = StartClock
    /\ cache = CacheWith(NoFile)
    /\ official_img_map = EmptyMap /\ prev_csv = None /\ prev_map = EmptyMap
    /\ args = ArgsDefault
    /\ style_code = << >>
    /\ items = << >> /\ best = None /\ top3_items = << >> /\ conf = 0
    /\ InitLocals
    /\ InitCall
    /\ InitFilterVars /\ InitDirVars /\ InitStartVars /\ InitHeroVars /\ InitDedupeVars
    /\ forum_days \in 1..(MaxAge - 1)
    /\ forum_pages = 0 /\ forum_posts = {} /\ forum_stop = FALSE
    /\ InitDashVars

NextForum ==
    \/ ListPageOk
    \/ ListPageFails
    \/ ReturnPosts

SpecForum == InitForum /\ [][NextForum]_vars

\* the most recent `days` calendar days, today included
RecentDays(days) == (Today - days + 1)..Today

\* C23: every post crawl_dc_engine(days) returns was created on one of the
\* most recent `days` calendar days, today included; no more than MAX_PAGES
\* list pages are requested.
C23_Original ==
    /\ forum_posts \subseteq RecentDays(forum_days)
    /\ forum_pages <= MAX_PAGES

\* what the crawl does give: the posts are of today and the `days` days
\* before it, one day more than the claim's window; a post older than that
\* ends the paging; at most MAX_PAGES list pages are requested
C23_OneDayMore ==
    /\ [](forum_posts \subseteq (Today - forum_days)..Today)
    /\ [](forum_pages <= MAX_PAGES)
    /\ [][forum_stop => (pc' = "returned" /\ forum_pages' = forum_pages
                          /\ forum_posts' = forum_posts)]_vars

\* ------------------------------------------------------------------------
\* SpecDash: the page build_html_portal writes, and its script
\* ------------------------------------------------------------------------
notDashVars == <<row_i, n_candidates, clock, cache, official_img_map, prev_csv, prev_map, args,
                 style_code, official_price, source, localVars, outVars, fetchVars,
                 filterVars, dirVars, startVars, heroVars, dedupeVars, forumVars>>

\* a row of `results` as main builds it (lines 1365-1372, 1386-1407)
ResultRow(code, name_en, official, naver, prev_naver, confidence) ==
    [code |-> code, name_en |-> name_en, name_ko |-> << >>,
     official |-> official, naver |-> Some(naver),
     diff |-> diff_of(official, naver),
     prev_naver |-> prev_naver, delta_naver |-> delta_of(naver, prev_naver),
     confidence |-> confidence]

NameJacket == <<"j","a","c","k","e","t">>
NameShoe == <<"s","h","o","e">>

\* the rows the page is built from: eleven, one more than the Top Gap list holds
ALL_ROWS ==
    << ResultRow(<<"C","7","A">>, NameJacket, Some(100), 90, Some(95), 4),
       ResultRow(<<"C","7","B">>, NameShoe, None, 80, None, 2),
       ResultRow(<<"C","6","A">>, NameJacket, Some(100), 120, Some(100), 3),
       ResultRow(<<"L","0","1">>, NameShoe, Some(200), 170, Some(171), 1),
       ResultRow(<<"L","0","2">>, NameShoe, Some(200), 240, None, 0),
       ResultRow(<<"L","0","3">>, NameShoe, Some(300), 250, Some(240), 4),
       ResultRow(<<"L","0","4">>, NameShoe, Some(300), 360, Some(340), 2),
       ResultRow(<<"L","0","5">>, NameShoe, Some(400), 330, Some(300), 3),
       ResultRow(<<"L","0","6">>, NameShoe, Some(400), 480, Some(520), 1),
       ResultRow(<<"L","0","7">>, NameShoe, Some(500), 410, Some(460), 0),
       ResultRow(<<"L","0","8">>, NameShoe, Some(500), 600, Some(540), 4) >>

Cards == 1..Len(ALL_ROWS)

\* lines 597, 1015, 1016: 10**18 and 1e18, scaled to a number above every price
Big == 1000000000

Abs(n) == IF n < 0 THEN 0 - n ELSE n

\* lines 470-472
gap_abs(r) == IF r.diff # None THEN Abs(r.diff[1]) ELSE 0 - 1

\* sorted(rows, key=gap_abs, reverse=True) on the row numbers: stable, equal
\* keys keep their order
RECURSIVE SortedByGap(_, _)
SortedByGap(ids, acc) ==
    IF ids = << >> THEN acc
    ELSE LET x == Head(ids)
             after == { i \in 1..Len(acc) : gap_abs(ALL_ROWS[acc[i]]) >= gap_abs(ALL_ROWS[x]) }
             n == Cardinality(after)
         IN  SortedByGap(Tail(ids),
                 SubSeq(acc, 1, n) \o <<x>> \o SubSeq(acc, n + 1, Len(acc)))

TopGapSize == 10

RowIds == [i \in Cards |-> i]

\* lines 474-475: the codes of the ten rows with the widest gap
TOP_GAP_CODES ==
    LET top == Prefix(SortedByGap(RowIds, << >>), TopGapSize)
    IN  { Strip(ALL_ROWS[top[k]].code) : k \in { j \in 1..Len(top) : Strip(ALL_ROWS[top[j]].code) # << >> } }

TabC7 == <<"C","7">>
TabC6 == <<"C","6">>
TabAll == <<"jeon","che">>
ordered_tabs == <<TabC7, TabC6, TabAll>>

\* lines 452-459: the rows of a tab, in the order of `rows`
InGroup(i, tab) ==
    IF tab = TabAll THEN TRUE
    ELSE IF StartsWith(Upper(ALL_ROWS[i].code), TabC7) THEN tab = TabC7
    ELSE IF StartsWith(Upper(ALL_ROWS[i].code), TabC6) THEN tab = TabC6
    ELSE FALSE

RECURSIVE GroupFrom(_, _)
GroupFrom(ids, tab) ==
    IF ids = << >> THEN << >>
    ELSE (IF InGroup(Head(ids), tab) THEN <<Head(ids)>> ELSE << >>) \o GroupFrom(Tail(ids), tab)

GroupOf(tab) == GroupFrom(RowIds, tab)

\* lines 461-464
active_tabs ==
    LET tab_if_rows(t) == IF GroupOf(t) # << >> THEN <<t>> ELSE << >>
        with_rows == tab_if_rows(ordered_tabs[1]) \o tab_if_rows(ordered_tabs[2])
                         \o tab_if_rows(ordered_tabs[3])
    IN  IF with_rows = << >> THEN <<TabAll>> ELSE with_rows

Tabs == { active_tabs[i] : i \in 1..Len(active_tabs) }

\* groups[tab]
groups == [t \in Tabs |-> GroupOf(t)]

\* lines 591-602: the data attributes of a card; "" is None
CardOf(i) ==
    LET r == ALL_ROWS[i]
    IN  [ code |-> Lower(r.code), code_raw |-> r.code,
          nameen |-> Lower(r.name_en), nameko |-> Lower(r.name_ko),
          missing |-> IF r.naver = None THEN 1 ELSE 0,
          diffpos |-> IF r.diff # None /\ r.diff[1] > 0 THEN 1 ELSE 0,
          diff |-> r.diff,
          diffabs |-> Some(IF r.diff # None THEN Abs(r.diff[1]) ELSE 0 - 1),
          naver |-> Some(IF r.naver # None THEN r.naver[1] ELSE 0 - 1),
          official |-> Some(IF r.official # None THEN r.official[1] ELSE 0 - 1),
          delta |-> Some(IF r.delta_naver # None THEN r.delta_naver[1] ELSE Big),
          conf |-> Some(r.confidence) ]

\* the cards of the page
CardItems == [i \in Cards |-> CardOf(i)]

Chips == {"diffpos", "missing", "topgap"}

\* lines 972-992
passesFilters(i, st, quick) ==
    LET card == CardItems[i]
        okEn == st.qEn = << >> \/ Contains(st.qEn, card.nameen)
        okKo == st.qKo = << >> \/ Contains(st.qKo, card.nameko)
        okCode == st.qCode = << >> \/ Contains(st.qCode, card.code)
    IN  IF ~st.hasSearched THEN TRUE
        ELSE IF ~(okEn /\ okKo /\ okCode) THEN FALSE
        ELSE IF quick["diffpos"] /\ card.diffpos # 1 THEN FALSE
        ELSE IF quick["missing"] /\ card.missing # 1 THEN FALSE
        ELSE IF quick["topgap"] /\ card.code_raw \notin TOP_GAP_CODES THEN FALSE
        ELSE TRUE

\* lines 998-1003
getNum(v, fallback) == IF v = None THEN fallback ELSE v[1]

\* the codes of the rows in the order of localeCompare
CodesInOrder ==
    << <<"C","6","A">>, <<"C","7","A">>, <<"C","7","B">>, <<"L","0","1">>,
       <<"L","0","2">>, <<"L","0","3">>, <<"L","0","4">>, <<"L","0","5">>,
       <<"L","0","6">>, <<"L","0","7">>, <<"L","0","8">> >>
CodeRank(code) == IndexIn(code, CodesInOrder)

SortModes == {"diffabs_desc", "diff_desc", "diff_asc", "naver_asc", "naver_desc",
              "official_desc", "code_asc", "delta_asc", "delta_desc", "conf_desc"}

\* the modes chosen in the select of the runs checked; the keys of
\* diffabs_desc and code_asc differ from row to row
ChosenModes == {"diffabs_desc", "code_asc", "delta_asc", "delta_desc"}

\* lines 1006-1019: cmp(a, b) < 0, the first card goes before the second
CardBefore(mode, i, j) ==
    LET a == CardItems[i]
        b == CardItems[j]
    IN  CASE mode = "diffabs_desc" -> getNum(b.diffabs, 0 - 1) < getNum(a.diffabs, 0 - 1)
          [] mode = "diff_desc" -> getNum(b.diff, 0 - Big) < getNum(a.diff, 0 - Big)
          [] mode = "diff_asc" -> getNum(a.diff, Big) < getNum(b.diff, Big)
          [] mode = "naver_asc" -> getNum(a.naver, Big) < getNum(b.naver, Big)
          [] mode = "naver_desc" -> getNum(b.naver, 0 - 1) < getNum(a.naver, 0 - 1)
          [] mode = "official_desc" -> getNum(b.official, 0 - 1) < getNum(a.official, 0 - 1)
          [] mode = "code_asc" -> CodeRank(a.code_raw) < CodeRank(b.code_raw)
          [] mode = "delta_asc" -> getNum(a.delta, Big) < getNum(b.delta, Big)
          [] mode = "delta_desc" -> getNum(b.delta, 0 - Big) < getNum(a.delta, 0 - Big)
          [] mode = "conf_desc" -> getNum(b.conf, 0) < getNum(a.conf, 0)
          [] OTHER -> FALSE

\* line 1020: Array.prototype.sort is stable
RECURSIVE InsertCard(_, _, _)
InsertCard(sorted, i, mode) ==
    IF sorted = << >> THEN <<i>>
    ELSE IF CardBefore(mode, i, Head(sorted))
         THEN <<i>> \o sorted
         ELSE <<Head(sorted)>> \o InsertCard(Tail(sorted), i, mode)

RECURSIVE SortWith(_, _, _)
SortWith(ids, mode, acc) ==
    IF ids = << >> THEN acc ELSE SortWith(Tail(ids), mode, InsertCard(acc, Head(ids), mode))

\* lines 994-1022
sortCards(ids, mode) == SortWith(ids, mode, << >>)

\* lines 1024-1042: applyAll works on the container of the active tab
ApplyAll(tab, st, quick, hidden) ==
    /\ dash_hidden' = [hidden EXCEPT ![tab] =
                          { groups[tab][k] : k \in { m \in 1..Len(groups[tab]) : ~passesFilters(groups[tab][m], st, quick) } }]
    /\ dash_order' = [dash_order EXCEPT ![tab] = sortCards(dash_order[tab], st.sortMode)]

\* what the user has typed into a search box, and what trim().toLowerCase()
\* makes of it
BoxTexts(S) == { << >> } \cup S
Typed(text) == Lower(Strip(text))

\* lines 1191-1200: the page as written, then the first applyAll
PageLoaded ==
    /\ pc = "loading"
    /\ ApplyAll(dash_tab, dash_state, dash_quick, dash_hidden)
    /\ pc' = "ready"
    /\ UNCHANGED <<dash_tab, dash_quick, dash_state, notDashVars>>

\* lines 1044-1053; the two name boxes are left empty
onSearchClick ==
    /\ pc = "ready"
    /\ \E code \in BoxTexts({<<"C","7"," ">>}), mode \in ChosenModes :
          LET st == [qEn |-> Typed(<< >>), qKo |-> Typed(<< >>), qCode |-> Typed(code),
                     sortMode |-> mode, hasSearched |-> TRUE]
          IN  /\ dash_state' = st
              /\ ApplyAll(dash_tab, st, dash_quick, dash_hidden)
    /\ UNCHANGED <<pc, dash_tab, dash_quick, notDashVars>>

\* lines 1055-1060
onApplyClick ==
    /\ pc = "ready"
    /\ \E mode \in ChosenModes :
          LET st == [dash_state EXCEPT !.sortMode = mode]
          IN  /\ dash_state' = st
              /\ ApplyAll(dash_tab, st, dash_quick, dash_hidden)
    /\ UNCHANGED <<pc, dash_tab, dash_quick, notDashVars>>

\* lines 965-970: the chip flips, then onApplyClick
toggleQuickFilter ==
    /\ pc = "ready"
    /\ \E name \in Chips, mode \in ChosenModes :
          LET quick == [dash_quick EXCEPT ![name] = ~@]
              st == [dash_state EXCEPT !.sortMode = mode]
          IN  /\ dash_quick' = quick
              /\ dash_state' = st
              /\ ApplyAll(dash_tab, st, quick, dash_hidden)
    /\ UNCHANGED <<pc, dash_tab, notDashVars>>

StateAtLoad ==
    [qEn |-> << >>, qKo |-> << >>, qCode |-> << >>,
     sortMode |-> "diffabs_desc", hasSearched |-> FALSE]

\* lines 1062-1084
resetAll ==
    /\ pc = "ready"
    /\ dash_quick' = [c \in Chips |-> FALSE]
    /\ dash_state' = StateAtLoad
    /\ ApplyAll(dash_tab, StateAtLoad, [c \in Chips |-> FALSE], [t \in Tabs |-> {}])
    /\ UNCHANGED <<pc, dash_tab, notDashVars>>

\* lines 1086-1104
switchTab ==
    /\ pc = "ready"
    /\ \E tab \in Tabs :
          /\ dash_tab' = tab
          /\ ApplyAll(tab, dash_state, dash_quick, dash_hidden)
    /\ UNCHANGED <<pc, dash_quick, dash_state, notDashVars>>

InitDash ==
    /\ pc = "loading"
    /\ clock = StartClock
    /\ cache = CacheWith(NoFile)
    /\ official_img_map = EmptyMap /\ prev_csv = None /\ prev_map = EmptyMap
    /\ args = ArgsDefault
    /\ style_code = << >>
    /\ items = << >> /\ best = None /\ top3_items = << >> /\ conf = 0
    /\ InitLocals
    /\ InitCall
    /\ InitFilterVars /\ InitDirVars /\ InitStartVars /\ InitHeroVars
    /\ InitDedupeVars /\ InitForumVars
    /\ dash_tab = active_tabs[1]
    /\ dash_quick = [c \in Chips |-> FALSE]
    /\ dash_state = StateAtLoad
    /\ dash_hidden = [t \in Tabs |-> {}]
    /\ dash_order = groups

NextDash ==
    \/ PageLoaded
    \/ onSearchClick
    \/ onApplyClick
    \/ toggleQuickFilter
    \/ resetAll
    \/ switchTab

SpecDash == InitDash /\ [][NextDash]_vars

\* the cards of the active tab that are shown, in document order
RECURSIVE ShownOf(_, _)
ShownOf(ids, hidden) ==
    IF ids = << >> THEN << >>
    ELSE (IF Head(ids) \in hidden THEN << >> ELSE <<Head(ids)>>) \o ShownOf(Tail(ids), hidden)

VisibleCards == ShownOf(dash_order[dash_tab], dash_hidden[dash_tab])

\* what a chip asks of a row
Satisfies(name, i) ==
    CASE name = "diffpos" -> ALL_ROWS[i].diff # None /\ ALL_ROWS[i].diff[1] > 0
      [] name = "missing" -> ALL_ROWS[i].naver = None
      [] name = "topgap" -> ALL_ROWS[i].code \in TOP_GAP_CODES

ChipsHold ==
    \A name \in Chips : dash_quick[name] =>
        \A k \in 1..Len(VisibleCards) : Satisfies(name, VisibleCards[k])

\* C27: whenever a quick-filter chip is active, every visible card of the
\* active tab satisfies that filter.
C27_Original == pc = "ready" => ChipsHold

\* what the page does: the chips filter once a search has been made; before
\* the first search, and after Reset, every card is shown whatever the chips
C27_AfterSearch ==
    pc = "ready" =>
        /\ dash_state.hasSearched => ChipsHold
        /\ ~dash_state.hasSearched => Len(VisibleCards) = Len(groups[dash_tab])

HasDelta(i) == ALL_ROWS[i].delta_naver # None

\* no row without a delta is shown before a row with one
DeltaLast(ids) ==
    \A m, n \in 1..Len(ids) : (m < n /\ HasDelta(ids[n])) => HasDelta(ids[m])
DeltaFirst(ids) ==
    \A m, n \in 1..Len(ids) : (m < n /\ HasDelta(ids[m])) => HasDelta(ids[n])

\* C28: in the sort modes delta_asc and delta_desc a row without a delta is
\* never ordered before a row that has one.
C28_Original ==
    (pc = "ready" /\ dash_state.sortMode \in {"delta_asc", "delta_desc"})
        => DeltaLast(dash_order[dash_tab])

\* what the page does: last in delta_asc, first in delta_desc
C28_LastOrFirst ==
    pc = "ready" =>
        /\ dash_state.sortMode = "delta_asc" => DeltaLast(dash_order[dash_tab])
        /\ dash_state.sortMode = "delta_desc" => DeltaFirst(dash_order[dash_tab])
====
